---- MODULE Spec2Model ----
(***************************************************************************)
(* large-translate: the chunker, the checkpoint store and the two          *)
(* orchestrators (synchronous and batch), modelled from                    *)
(* src/src/large_translate/{chunking,checkpoint,engine,batch_engine}.py.   *)
(*                                                                         *)
(* A text is a sequence of one-character strings.  A segment is a record   *)
(* [text, metadata, segment_type, skip_translation] (parsers/base.py), a   *)
(* chunk a record [segments, token_count, chunk_index, total_chunks]       *)
(* (chunking.py).                                                          *)
(***************************************************************************)
EXTENDS Integers, Sequences, FiniteSets, TLC

(***************************************************************************)
(* Bounds of the model.                                                    *)
(***************************************************************************)
\* total number of characters in the translatable segments of a document
MaxChars == 3
\* number of skip_translation segments in a document
MaxSkip == 1
\* the chunk budgets tried are 0..MaxBudget
MaxBudget == 3
\* number of write calls json.dump takes to write one checkpoint
SaveParts == 2
\* number of times the process is killed inside save in one behaviour
MaxCrashes == 2
\* number of invocations of an orchestrator in one behaviour
MaxRuns == 2
MaxResponse == 4

(***************************************************************************)
(* Text primitives (Python str / re as the code uses them).                *)
(***************************************************************************)
NL == "\n"
Alphabet == {"a", ".", " "}

IsWs(c) == c \in {" ", NL}
IsSentenceEnd(c) == c \in {".", "!", "?"}

RECURSIVE LStrip(_)
LStrip(t) == IF t # <<>> /\ IsWs(Head(t)) THEN LStrip(Tail(t)) ELSE t

RECURSIVE RStrip(_)
RStrip(t) ==
    IF t # <<>> /\ IsWs(t[Len(t)]) THEN RStrip(SubSeq(t, 1, Len(t) - 1)) ELSE t

\* str.strip()
Strip(t) == RStrip(LStrip(t))

\* first index j >= i of t that is not whitespace (Len(t)+1 when none)
RECURSIVE SkipWs(_, _)
SkipWs(t, i) == IF i <= Len(t) /\ IsWs(t[i]) THEN SkipWs(t, i + 1) ELSE i

\* re.split(r"(?<=[.!?])\s+", t): a match is a maximal run of whitespace that
\* directly follows a sentence-ending character; the run is dropped.
RECURSIVE ReSplitFrom(_, _, _, _)
ReSplitFrom(t, i, cur, out) ==
    IF i > Len(t) THEN Append(out, cur)
    ELSE IF IsWs(t[i]) /\ i > 1 /\ IsSentenceEnd(t[i - 1])
         THEN ReSplitFrom(t, SkipWs(t, i), <<>>, Append(out, cur))
         ELSE ReSplitFrom(t, i + 1, Append(cur, t[i]), out)

SentenceSplit(t) == ReSplitFrom(t, 1, <<>>, <<>>)

\* sep.join(parts)
RECURSIVE JoinFrom(_, _, _)
JoinFrom(parts, sep, i) ==
    IF i > Len(parts) THEN <<>>
    ELSE IF i = Len(parts) THEN parts[i]
    ELSE parts[i] \o sep \o JoinFrom(parts, sep, i + 1)

Join(parts, sep) == JoinFrom(parts, sep, 1)

\* the separator "\n\n" of engine.py / batch_engine.py / parsers
Separator == <<NL, NL>>

\* text.split("\n\n"): leftmost non-overlapping occurrences
RECURSIVE SplitSepFrom(_, _, _, _)
SplitSepFrom(t, i, cur, out) ==
    IF i > Len(t) THEN Append(out, cur)
    ELSE IF i < Len(t) /\ t[i] = NL /\ t[i + 1] = NL
         THEN SplitSepFrom(t, i + 2, <<>>, Append(out, cur))
         ELSE SplitSepFrom(t, i + 1, Append(cur, t[i]), out)

SplitSep(t) == SplitSepFrom(t, 1, <<>>, <<>>)

(***************************************************************************)
(* Token counters (BaseLLMProvider.count_tokens): the chunker takes the    *)
(* counter as a parameter.  "chars" is one token per character, "quarter"  *)
(* is the len(text) // 4 estimate of the Anthropic and Google providers,   *)
(* "odd" is a counter that is not monotone in the text.                    *)
(***************************************************************************)
TokenCounters == {"chars", "quarter", "odd"}

CountTokens(tc, t) ==
    CASE tc = "chars" -> Len(t)
      [] tc = "quarter" -> Len(t) \div 4
      [] OTHER -> IF Len(t) % 2 = 1 THEN Len(t) ELSE 0

(***************************************************************************)
(* Segments and chunks.                                                    *)
(***************************************************************************)
\* TextSegment(text, metadata={}, segment_type="paragraph")
TextSegment(text, metadata, segment_type) ==
    [text |-> text, metadata |-> metadata, segment_type |-> segment_type,
     skip_translation |-> FALSE]

\* a code block as MarkdownParser.parse produces it
CodeBlock(text) ==
    [text |-> text, metadata |-> {<<"original", text>>},
     segment_type |-> "code_block", skip_translation |-> TRUE]

Chunk(segs, tokens, index) ==
    [segments |-> segs, token_count |-> tokens, chunk_index |-> index,
     total_chunks |-> 0]

(***************************************************************************)
(* ChunkingStrategy._split_large_segment                                   *)
(***************************************************************************)
\* one iteration of the loop over the sentences; st = [subs, current_text]
SplitSentenceStep(segment, sentence, st, tc, max) ==
    LET potential_text ==
            IF st.current_text # <<>>
            THEN Strip(st.current_text \o <<" ">> \o sentence)
            ELSE sentence
    IN  IF CountTokens(tc, potential_text) > max
        THEN [subs |->
                 IF st.current_text # <<>>
                 THEN Append(st.subs,
                             TextSegment(Strip(st.current_text),
                                         segment.metadata,
                                         segment.segment_type))
                 ELSE st.subs,
              current_text |-> sentence]
        ELSE [subs |-> st.subs, current_text |-> potential_text]

RECURSIVE SplitSentenceLoop(_, _, _, _, _, _)
SplitSentenceLoop(segment, sentences, i, st, tc, max) ==
    IF i > Len(sentences) THEN st
    ELSE SplitSentenceLoop(segment, sentences, i + 1,
             SplitSentenceStep(segment, sentences[i], st, tc, max), tc, max)

SplitLargeSegment(segment, tc, max) ==
    LET st == SplitSentenceLoop(segment, SentenceSplit(segment.text), 1,
                                [subs |-> <<>>, current_text |-> <<>>], tc, max)
    IN  IF st.current_text # <<>>
        THEN Append(st.subs,
                    TextSegment(Strip(st.current_text), segment.metadata,
                                segment.segment_type))
        ELSE st.subs

(***************************************************************************)
(* ChunkingStrategy.chunk_segments                                         *)
(***************************************************************************)
\* chunks.append(Chunk(current_segments, current_tokens, len(chunks)))
\* when current_segments is not empty
FlushCurrent(st) ==
    IF st.current_segments # <<>>
    THEN Append(st.chunks,
                Chunk(st.current_segments, st.current_tokens, Len(st.chunks)))
    ELSE st.chunks

\* AppendSubChunks putting all the sub-segments into one chunk
AppendSubChunksMerged(chunks, subs, i, tc) ==
    IF subs = <<>> THEN chunks
    ELSE Append(chunks,
                Chunk(subs, CountTokens(tc, Join([k \in 1..Len(subs) |->
                                                     subs[k].text], <<" ">>)),
                      Len(chunks)))

\* one single-segment chunk per sub-segment
RECURSIVE AppendSubChunks(_, _, _, _)
AppendSubChunks(chunks, subs, i, tc) ==
    IF i > Len(subs) THEN chunks
    ELSE AppendSubChunks(
             Append(chunks,
                    Chunk(<<subs[i]>>, CountTokens(tc, subs[i].text),
                          Len(chunks))),
             subs, i + 1, tc)

\* ChunkSegmentStep with the "would exceed the budget" branch lost: a segment
\* that fits on its own is always added to the open chunk
ChunkSegmentStepNoBudgetFlush(segment, st, tc, max) ==
    LET segment_tokens == CountTokens(tc, segment.text) IN
    IF segment.skip_translation
    THEN [st EXCEPT !.current_segments = Append(@, segment)]
    ELSE IF segment_tokens > max
    THEN [chunks |-> AppendSubChunks(FlushCurrent(st),
                         SplitLargeSegment(segment, tc, max), 1, tc),
          current_segments |-> <<>>,
          current_tokens |-> 0]
    ELSE [chunks |-> st.chunks,
          current_segments |-> Append(st.current_segments, segment),
          current_tokens |-> st.current_tokens + segment_tokens]

\* ChunkSegmentStep without the branch for skip_translation: a code block
\* is counted and placed like any other segment
ChunkSegmentStepCountsSkip(segment, st, tc, max) ==
    LET segment_tokens == CountTokens(tc, segment.text) IN
    IF segment_tokens > max
    THEN [chunks |-> AppendSubChunks(FlushCurrent(st),
                         SplitLargeSegment(segment, tc, max), 1, tc),
          current_segments |-> <<>>,
          current_tokens |-> IF st.current_segments # <<>>
                             THEN 0 ELSE st.current_tokens]
    ELSE IF st.current_tokens + segment_tokens > max
    THEN [chunks |-> FlushCurrent(st),
          current_segments |-> <<segment>>,
          current_tokens |-> segment_tokens]
    ELSE [chunks |-> st.chunks,
          current_segments |-> Append(st.current_segments, segment),
          current_tokens |-> st.current_tokens + segment_tokens]

\* the body of the loop over the segments;
\* st = [chunks, current_segments, current_tokens]
ChunkSegmentStep(segment, st, tc, max) ==
    LET segment_tokens == CountTokens(tc, segment.text) IN
    IF segment.skip_translation
    THEN [st EXCEPT !.current_segments = Append(@, segment)]
    ELSE IF segment_tokens > max
    THEN [chunks |-> AppendSubChunks(FlushCurrent(st),
                         SplitLargeSegment(segment, tc, max), 1, tc),
          current_segments |-> <<>>,
          current_tokens |-> IF st.current_segments # <<>>
                             THEN 0 ELSE st.current_tokens]
    ELSE IF st.current_tokens + segment_tokens > max
    THEN [chunks |-> FlushCurrent(st),
          current_segments |-> <<segment>>,
          current_tokens |-> segment_tokens]
    ELSE [chunks |-> st.chunks,
          current_segments |-> Append(st.current_segments, segment),
          current_tokens |-> st.current_tokens + segment_tokens]

RECURSIVE ChunkSegmentLoop(_, _, _, _, _)
ChunkSegmentLoop(segs, i, st, tc, max) ==
    IF i > Len(segs) THEN st
    ELSE ChunkSegmentLoop(segs, i + 1,
                          ChunkSegmentStep(segs[i], st, tc, max), tc, max)

\* SetTotals giving each chunk the number of chunks there were when it
\* was appended
SetTotalsAtAppend(chunks) ==
    [i \in 1..Len(chunks) |->
        [chunks[i] EXCEPT !.total_chunks = chunks[i].chunk_index + 1]]

\* for chunk in chunks: chunk.total_chunks = len(chunks)
SetTotals(chunks) ==
    [i \in 1..Len(chunks) |-> [chunks[i] EXCEPT !.total_chunks = Len(chunks)]]

\* ChunkSegments without the flush of the last open chunk
ChunkSegmentsNoLastFlush(segs, tc, max) ==
    SetTotals(
        ChunkSegmentLoop(segs, 1,
            [chunks |-> <<>>, current_segments |-> <<>>, current_tokens |-> 0],
            tc, max).chunks)

ChunkSegments(segs, tc, max) ==
    SetTotals(FlushCurrent(
        ChunkSegmentLoop(segs, 1,
            [chunks |-> <<>>, current_segments |-> <<>>, current_tokens |-> 0],
            tc, max)))

(***************************************************************************)
(* checkpoint.py: CheckpointData, segment (de)serialisation and the file   *)
(* at CheckpointManager.checkpoint_path.                                   *)
(***************************************************************************)
None == "None"
\* batch_id: None is 0, the ids the service gives are 1, 2, ...
NoBatch == 0
\* chunk_mapping: None
NoMapping == <<>>

\* CheckpointData(...) as TranslationEngine.translate_file builds it; job is
\* [input_path, target_language, chunk_size, total_chunks] of the running call
SyncCheckpoint(job, last_completed_chunk, translated_segments, context_history) ==
    [engine_type |-> "real-time", input_path |-> job.input_path,
     output_path |-> "out", target_language |-> job.target_language,
     source_language |-> None, chunk_size |-> job.chunk_size,
     last_completed_chunk |-> last_completed_chunk,
     total_chunks |-> job.total_chunks,
     translated_segments |-> translated_segments,
     context_history |-> context_history,
     batch_id |-> NoBatch, batch_stage |-> None, chunk_mapping |-> NoMapping]

\* CheckpointData(...) as BatchTranslationEngine.translate_file_batch builds it
BatchCheckpoint(job, last_completed_chunk, batch_id, batch_stage, chunk_mapping) ==
    [engine_type |-> "batch", input_path |-> job.input_path,
     output_path |-> "out", target_language |-> job.target_language,
     source_language |-> None, chunk_size |-> job.chunk_size,
     last_completed_chunk |-> last_completed_chunk,
     total_chunks |-> job.total_chunks,
     translated_segments |-> <<>>, context_history |-> <<>>,
     batch_id |-> batch_id, batch_stage |-> batch_stage,
     chunk_mapping |-> chunk_mapping]

\* load() returning None (so that a field of the result can be read)
NoCheckpoint == [engine_type |-> None]

\* the identity of a job: what a checkpoint is matched on, and the chunk size
Job(input_path, target_language, chunk_size, total_chunks) ==
    [input_path |-> input_path, target_language |-> target_language,
     chunk_size |-> chunk_size, total_chunks |-> total_chunks]

\* serialize_segment: the four fields, as a dictionary
SerializeSegment(segment) ==
    [text |-> segment.text, metadata |-> segment.metadata,
     segment_type |-> segment.segment_type,
     skip_translation |-> segment.skip_translation]

\* TextSegment(**deserialize_segment(data)), with the defaults of data.get
DeserializeSegment(data) ==
    [text |-> data.text,
     metadata |-> IF "metadata" \in DOMAIN data THEN data.metadata ELSE {},
     segment_type |-> IF "segment_type" \in DOMAIN data
                      THEN data.segment_type ELSE "paragraph",
     skip_translation |-> IF "skip_translation" \in DOMAIN data
                          THEN data.skip_translation ELSE FALSE]

SerializeSegments(segs) == [i \in 1..Len(segs) |-> SerializeSegment(segs[i])]
DeserializeSegments(ds) == [i \in 1..Len(ds) |-> DeserializeSegment(ds[i])]

\* What a path holds.  A file written by json.dump holds the first `written`
\* of the SaveParts parts of the serialisation of `data`; it is well-formed
\* JSON only when all parts are there.
NoFile == [kind |-> "absent"]
JsonFile(data, written) == [kind |-> "json", data |-> data, written |-> written]
CompleteFile(data) == JsonFile(data, SaveParts)
IsComplete(f) == f.kind = "json" /\ f.written = SaveParts

(***************************************************************************)
(* CheckpointManager.load                                                  *)
(***************************************************************************)
\* What load() gives for the file f: the stored CheckpointData when the file
\* is the complete JSON of one, None when there is no file or json.load /
\* CheckpointData(**data) raise JSONDecodeError, TypeError or KeyError.
\* A file of kind "wrong_types" is the JSON of an object with the keys of
\* CheckpointData whose field `bad` holds a value of another type (the
\* dataclass does not validate); one of kind "invalid_utf8" is not UTF-8.
Load(f) ==
    IF IsComplete(f) \/ f.kind = "wrong_types" THEN f.data ELSE NoCheckpoint

\* f.read() raises UnicodeDecodeError, which load() does not catch
LoadRaises(f) == f.kind = "invalid_utf8"

\* the field of the loaded CheckpointData that has a value of the wrong type
BadField(f) == IF f.kind = "wrong_types" THEN f.bad ELSE None

(***************************************************************************)
(* ContextManager (chunking.py)                                            *)
(***************************************************************************)
ContextLength == 200

NoContext == [some |-> FALSE]
SomeContext(t) == [some |-> TRUE, text |-> t]

\* str.find(". "): the first index (from 1) of ". " in t, 0 when there is none
RECURSIVE FindBoundary(_, _)
FindBoundary(t, i) ==
    IF i >= Len(t) THEN 0
    ELSE IF t[i] = "." /\ t[i + 1] = " " THEN i
    ELSE FindBoundary(t, i + 1)

\* LastTwo taking the last translation only
LastOne(history) ==
    IF Len(history) <= 1 THEN history
    ELSE SubSeq(history, Len(history), Len(history))

\* previous_translations[-2:]
LastTwo(history) ==
    IF Len(history) <= 2 THEN history
    ELSE SubSeq(history, Len(history) - 1, Len(history))

\* t[-n:]: the last n characters for n > 0 (all of t when it has fewer), all
\* of t for n = 0, t without its first -n characters for n < 0
LastChars(t, n) ==
    IF n = 0 \/ n >= Len(t) THEN t
    ELSE IF n > 0 THEN SubSeq(t, Len(t) - n + 1, Len(t))
    ELSE SubSeq(t, 1 - n, Len(t))

\* GetContext returning the joined text whatever its length
GetContextNoTruncation(history, chunk_index, window) ==
    IF chunk_index = 0 \/ history = <<>> THEN NoContext
    ELSE SomeContext(Join(LastTwo(history), <<" ">>))

GetContext(history, chunk_index, window) ==
    IF chunk_index = 0 \/ history = <<>> THEN NoContext
    ELSE LET recent_text == Join(LastTwo(history), <<" ">>) IN
         IF Len(recent_text) > window
         THEN LET truncated == LastChars(recent_text, window)
                  sentence_start == FindBoundary(truncated, 1)
              IN  IF sentence_start # 0
                  THEN SomeContext(SubSeq(truncated, sentence_start + 2,
                                          Len(truncated)))
                  ELSE SomeContext(truncated)
         ELSE SomeContext(recent_text)

(***************************************************************************)
(* TranslationEngine._translate_chunk                                      *)
(***************************************************************************)
Translatable(segs) == SelectSeq(segs, LAMBDA x : ~x.skip_translation)

SegmentTexts(segs) == [i \in 1..Len(segs) |-> segs[i].text]

\* HasTranslatable taking every chunk as one with text to send
HasTranslatableAlways(chunk) == TRUE

\* if not translatable_segments: return list(chunk.segments)
HasTranslatable(chunk) == Translatable(chunk.segments) # <<>>

\* "\n\n".join(s.text for s in translatable_segments)
CombinedText(chunk) == Join(SegmentTexts(Translatable(chunk.segments)), Separator)

\* Reconstruct keeping the original text when the parts run out
ReconstructKeepsOriginal(segs, translated_text) ==
    LET parts == SplitSep(translated_text)
        trans_idx(i) == Len(Translatable(SubSeq(segs, 1, i)))
    IN  [i \in 1..Len(segs) |->
            IF segs[i].skip_translation THEN segs[i]
            ELSE TextSegment(IF trans_idx(i) <= Len(parts)
                             THEN parts[trans_idx(i)] ELSE segs[i].text,
                             segs[i].metadata, segs[i].segment_type)]

\* Reconstruct returning the translated segments only
ReconstructDropsSkipped(segs, translated_text) ==
    LET parts == SplitSep(translated_text)
        kept == Translatable(segs)
    IN  [i \in 1..Len(kept) |->
            TextSegment(IF i <= Len(parts) THEN parts[i] ELSE <<>>,
                        kept[i].metadata, kept[i].segment_type)]

\* the chunk's segments with the i-th translatable one given the i-th part of
\* the translated text ("" when there are fewer parts), skip segments in place
Reconstruct(segs, translated_text) ==
    LET parts == SplitSep(translated_text)
        trans_idx(i) == Len(Translatable(SubSeq(segs, 1, i)))
    IN  [i \in 1..Len(segs) |->
            IF segs[i].skip_translation THEN segs[i]
            ELSE TextSegment(IF trans_idx(i) <= Len(parts)
                             THEN parts[trans_idx(i)] ELSE <<>>,
                             segs[i].metadata, segs[i].segment_type)]

\* the result of _translate_chunk when llm.translate returns translated_text
TranslateChunk(chunk, translated_text) ==
    IF ~HasTranslatable(chunk) THEN chunk.segments
    ELSE Reconstruct(chunk.segments, translated_text)

\* stop_after_attempt(5)
MaxAttempts == 5

(***************************************************************************)
(* The start of TranslationEngine.translate_file                           *)
(***************************************************************************)
\* ResumeIndex resuming at the last completed chunk instead of the next one
ResumeIndexOffByOne(checkpoint) == checkpoint.last_completed_chunk

\* start_chunk = checkpoint.last_completed_chunk + 1
ResumeIndex(checkpoint) == checkpoint.last_completed_chunk + 1

\* CheckpointMatches without the comparison of total_chunks
CheckpointMatchesNoTotal(checkpoint, engine_type, j) ==
    /\ checkpoint.engine_type = engine_type
    /\ checkpoint.input_path = j.input_path
    /\ checkpoint.target_language = j.target_language

\* checkpoint and checkpoint.engine_type == ... and input_path ==, ...
CheckpointMatches(checkpoint, engine_type, j) ==
    /\ checkpoint.engine_type = engine_type
    /\ checkpoint.input_path = j.input_path
    /\ checkpoint.target_language = j.target_language
    /\ checkpoint.total_chunks = j.total_chunks

(***************************************************************************)
(* Inputs of the chunker: every document whose translatable segments hold  *)
(* at most MaxChars characters in all (each at least one), with at most    *)
(* MaxSkip code blocks in between.                                         *)
(***************************************************************************)
RECURSIVE TextsOfLen(_)
TextsOfLen(n) ==
    IF n = 0 THEN {<<>>}
    ELSE {Append(t, c) : t \in TextsOfLen(n - 1), c \in Alphabet}

RECURSIVE DocsUpTo(_, _)
DocsUpTo(n, k) ==
    {<<>>}
    \cup UNION {UNION {{<<TextSegment(t, {}, "paragraph")>> \o d :
                          d \in DocsUpTo(n - m, k)} : t \in TextsOfLen(m)} :
                m \in 1..n}
    \cup (IF k = 0 THEN {}
          ELSE {<<CodeBlock(<<"a">>)>> \o d : d \in DocsUpTo(n, k - 1)})

Docs == DocsUpTo(MaxChars, MaxSkip)

\* documents with a paragraph of three sentences, for the sentence packing
\* of _split_large_segment
ThreeSentences == <<".", " ", ".", " ", "a">>
SentenceDocs ==
    {<<CodeBlock(<<"a">>), TextSegment(ThreeSentences, {}, "paragraph")>>,
     <<TextSegment(<<"a">>, {}, "paragraph"),
       TextSegment(ThreeSentences, {}, "paragraph"),
       TextSegment(<<"a">>, {}, "paragraph")>>}
Budgets == 0..MaxBudget

(***************************************************************************)
(* State.                                                                  *)
(***************************************************************************)
VARIABLES
    pc,          \* where the running call is
    segments,    \* parser.parse(input_path)
    counter,     \* the provider's count_tokens
    max_tokens,  \* ChunkingStrategy.max_tokens
    chunks,      \* the result of chunk_segments
    disk,        \* the file at CheckpointManager.checkpoint_path
    temp,        \* the temporary file of the save in progress (or of a killed one)
    leaked,      \* temporary files left behind by earlier killed saves
    save_pc,     \* where CheckpointManager.save is
    save_prev,   \* (ghost) the checkpoint file when the save began
    save_new,    \* (ghost) the data the save was given
    save_at,     \* (ghost) parts written when the save failed or was killed
    crashes,     \* number of kills so far, where they are bounded
    mode,        \* "sync" (translate_file) or "batch" (translate_file_batch)
    job,         \* input_path, target_language, chunk_size, total_chunks
    start_chunk, \* translate_file's start_chunk
    next_chunk,  \* index of the chunk the loop of translate_file is at
    translated_segments,
    resumed,
    history,     \* context_manager.previous_translations
    attempt,     \* attempts of _translate_chunk made for the current chunk
    output,      \* what parser.write was given
    error,       \* the exception that ended the call
    runs,        \* number of invocations so far
    found,       \* (ghost) what load() returned at the start of the call
    calls,       \* (ghost) chunk indices llm.translate was called for
    identity,    \* (ghost) every llm.translate so far returned its input
    batch_id,    \* translate_file_batch's batch_id
    status,      \* the BatchStatus the last get_batch_status returned
    results,     \* what get_batch_results returned, per chunk
    submits,     \* number of batches the service was given so far
    first_call,  \* (ghost) the first call of this run to the batch service
    run_submits, \* (ghost) create_batch calls of this run
    streak_key,  \* (ghost) the job of the last invocation
    streak_submits, \* (ghost) create_batch calls over the consecutive
                    \* invocations of streak_key, none of which has returned
    prior_calls, \* (ghost) chunks llm.translate returned for in the earlier
                 \* invocations of streak_key that were killed or raised
    prior_last,  \* (ghost) the last of them, -1 when there is none
    context,     \* (ghost) the context the last llm.translate was given
    returned,    \* (ghost) chunk index and text of every llm.translate
                 \* that returned in this call, in order
    output_path, \* the output_path the CheckpointManager was built for
    files,       \* the checkpoint files, by path, where several are told apart
    savers,      \* the saves of several CheckpointManagers on one path
    context_length, \* ContextManager.context_length
    llm,         \* self.llm.translate, as a function of its text and context
    asked        \* (ghost) the batch ids this call gave to get_batch_status
                 \* and get_batch_results

chunkVars ==
    <<segments, counter, max_tokens, chunks, context_length, llm>>
storeVars == <<disk, temp, leaked, save_pc, save_prev, save_new, save_at>>
runVars == <<mode, job, start_chunk, next_chunk, translated_segments, resumed,
             history, attempt, output, error, runs>>
ghostVars == <<found, calls, identity, context, returned, asked>>
fileVars == <<output_path, files, savers>>
batchVars == <<batch_id, status, results, submits, first_call, run_submits>>
streakVars == <<streak_key, streak_submits, prior_calls, prior_last>>
vars == <<pc, chunkVars, storeVars, crashes, runVars, ghostVars, batchVars,
          streakVars, fileVars>>

\* a provider whose translate may return any of Responses at every call
AnyProvider == "any"
NoStatus == [status |-> None, completed |-> 0]
NoCall == <<>>
NoKey == <<>>

\* the batch variables of a call that has not reached the batch service
BatchLocalIdle ==
    /\ batch_id = NoBatch
    /\ status = NoStatus
    /\ results = <<>>
    /\ first_call = NoCall
    /\ run_submits = 0

BatchIdle ==
    /\ BatchLocalIdle
    /\ submits = 0
    /\ streak_key = NoKey
    /\ streak_submits = 0
    /\ prior_calls = {}
    /\ prior_last = -1

NoJob == Job(None, None, 0, 0)

\* parser.write has not been called
NoOutput == <<[written |-> FALSE]>>

\* no orchestrator has been called
RunIdle ==
    /\ mode = None
    /\ job = NoJob
    /\ start_chunk = 0
    /\ next_chunk = 0
    /\ translated_segments = <<>>
    /\ resumed = FALSE
    /\ history = <<>>
    /\ attempt = 0
    /\ output = NoOutput
    /\ error = None
    /\ runs = 0
    /\ found = NoCheckpoint
    /\ calls = {}
    /\ identity = TRUE
    /\ context = NoContext
    /\ returned = <<>>
    /\ asked = {}

\* no CheckpointManager has been built
NoPath == [parent |-> None, name |-> <<>>]

\* no save has been started and there is no checkpoint
StoreIdle ==
    /\ output_path = NoPath
    /\ files = <<>>
    /\ savers = <<>>
    /\ disk = NoFile
    /\ temp = NoFile
    /\ leaked = 0
    /\ save_pc = "idle"
    /\ save_prev = NoFile
    /\ save_new = NoCheckpoint
    /\ save_at = -1

(***************************************************************************)
(* The chunker alone: any document, any counter, any budget.               *)
(***************************************************************************)
InitChunk ==
    /\ pc = "parsed"
    /\ segments \in Docs \cup SentenceDocs
    /\ counter \in TokenCounters
    /\ context_length = ContextLength
    /\ llm = AnyProvider
    /\ max_tokens \in Budgets
    /\ chunks = <<>>
    /\ StoreIdle
    /\ crashes = 0
    /\ RunIdle
    /\ BatchIdle

DoChunk ==
    /\ pc = "parsed"
    /\ chunks' = ChunkSegments(segments, counter, max_tokens)
    /\ pc' = "chunked"
    /\ UNCHANGED <<segments, counter, context_length, llm, fileVars,
                   max_tokens,
                   storeVars, crashes,
                   runVars, ghostVars, batchVars, streakVars>>

NextChunk == DoChunk

SpecChunk == InitChunk /\ [][NextChunk]_vars

(***************************************************************************)
(* CheckpointManager.save / clean, step by step, with the process killed   *)
(* at any step.  The checkpoints saved are drawn from SaveSamples.         *)
(***************************************************************************)
SaveSamples ==
    {SyncCheckpoint(Job("in1", "fr", 1, 2), k, <<>>, <<>>) : k \in 0..1}
    \cup {BatchCheckpoint(Job("in1", "fr", 1, 2), -1, 1, st, NoMapping) :
             st \in {"submitted", "polling"}}

InitSave ==
    /\ pc = "store"
    /\ segments = <<>>
    /\ counter = "chars"
    /\ context_length = ContextLength
    /\ llm = AnyProvider
    /\ max_tokens = 0
    /\ chunks = <<>>
    /\ StoreIdle
    /\ crashes = 0
    /\ RunIdle
    /\ BatchIdle

\* asdict(data); tempfile.mkstemp(dir=checkpoint_path.parent)
SaveBegin ==
    /\ save_pc \in {"idle", "returned", "raised", "killed"}
    /\ \E data \in SaveSamples :
          /\ save_new' = data
          /\ temp' = JsonFile(data, 0)
    /\ leaked' = IF temp # NoFile THEN leaked + 1 ELSE leaked
    /\ save_prev' = disk
    /\ save_pc' = "writing"
    /\ save_at' = -1
    /\ UNCHANGED <<runVars, ghostVars, batchVars, streakVars, pc, chunkVars,
                   fileVars, disk, crashes>>

\* SaveWrite with the data written to the checkpoint path itself
SaveWriteInPlace ==
    /\ save_pc = "writing"
    /\ temp.written < SaveParts
    /\ temp' = [temp EXCEPT !.written = @ + 1]
    /\ disk' = temp'
    /\ UNCHANGED <<runVars, ghostVars, batchVars, streakVars, pc, chunkVars,
                   fileVars, leaked, save_pc, save_prev, save_new, save_at,
                   crashes>>

\* json.dump(checkpoint_dict, f): one more part reaches the temporary file
SaveWrite ==
    /\ save_pc = "writing"
    /\ temp.written < SaveParts
    /\ temp' = [temp EXCEPT !.written = @ + 1]
    /\ UNCHANGED <<runVars, ghostVars, batchVars, streakVars, pc, chunkVars,
                   fileVars, disk, leaked, save_pc, save_prev, save_new,
                   save_at, crashes>>

\* SaveFails without the clean-up of the temporary file
SaveFailsKeepsTemp ==
    /\ save_pc = "writing"
    /\ save_at' = temp.written
    /\ save_pc' = "raised"
    /\ UNCHANGED <<runVars, ghostVars, batchVars, streakVars, pc, chunkVars,
                   fileVars, disk, temp, leaked, save_prev, save_new, crashes>>

\* json.dump or os.replace raises: except Exception: os.unlink(temp_path); raise
SaveFails ==
    /\ save_pc = "writing"
    /\ save_at' = temp.written
    /\ temp' = NoFile
    /\ save_pc' = "raised"
    /\ UNCHANGED <<runVars, ghostVars, batchVars, streakVars, pc, chunkVars,
                   fileVars, disk, leaked, save_prev, save_new, crashes>>

\* os.replace(temp_path, checkpoint_path), once the file is written and closed
SaveReplace ==
    /\ save_pc = "writing"
    /\ temp.written = SaveParts
    /\ disk' = temp
    /\ temp' = NoFile
    /\ save_pc' = "returned"
    /\ UNCHANGED <<runVars, ghostVars, batchVars, streakVars, pc, chunkVars,
                   fileVars, leaked, save_prev, save_new, save_at, crashes>>

\* the process is killed inside save: its temporary file stays where it is
SaveKill ==
    /\ save_pc = "writing"
    /\ crashes < MaxCrashes
    /\ crashes' = crashes + 1
    /\ save_at' = temp.written
    /\ save_pc' = "killed"
    /\ UNCHANGED <<runVars, ghostVars, batchVars, streakVars, pc, chunkVars,
                   fileVars, disk, temp, leaked, save_prev, save_new>>

\* CheckpointManager.clean
SaveClean ==
    /\ save_pc \in {"returned", "raised", "killed"}
    /\ disk # NoFile
    /\ disk' = NoFile
    /\ save_prev' = NoFile
    /\ save_new' = NoCheckpoint
    /\ save_pc' = "idle"
    /\ UNCHANGED <<runVars, ghostVars, batchVars, streakVars, pc, chunkVars,
                   fileVars, temp, leaked, save_at, crashes>>

NextSave ==
    \/ SaveBegin
    \/ SaveWrite
    \/ SaveFails
    \/ SaveReplace
    \/ SaveKill
    \/ SaveClean

SpecSave == InitSave /\ [][NextSave]_vars

(***************************************************************************)
(* The orchestrators.  A call is given an input path, a target language, a *)
(* chunk size and finds a document at the input path; the provider counts  *)
(* one token per character.  The documents:                                *)
(*   DocA  two paragraphs                                                  *)
(*   DocB  a paragraph, a code block, a paragraph of two sentences         *)
(*   DocC  a code block alone                                              *)
(***************************************************************************)
DocA == <<TextSegment(<<"a">>, {}, "paragraph"),
          TextSegment(<<"a">>, {}, "paragraph")>>
DocB == <<TextSegment(<<"a">>, {}, "paragraph"), CodeBlock(<<"a">>),
          TextSegment(<<".", " ", "a">>, {}, "paragraph")>>
DocC == <<CodeBlock(<<"a">>)>>

JobDocs == {DocA, DocB, DocC}
JobBudgets == {1, MaxBudget}
JobInputs == {<<"in1", "fr">>, <<"in2", "fr">>, <<"in1", "de">>}

\* what llm.translate may return for a text: the text itself, or one part
Responses(text) == {text, <<"b">>}

Init ==
    /\ pc = "idle"
    /\ segments = <<>>
    /\ counter = "chars"
    /\ context_length = ContextLength
    /\ llm = AnyProvider
    /\ max_tokens = 0
    /\ chunks = <<>>
    /\ StoreIdle
    /\ crashes = 0
    /\ RunIdle
    /\ BatchIdle

\* An engine is built and called once per process (cli.py).
CanStart(m) == pc = "idle"

\* translate_file up to the loop over the chunks: parse, chunk, load the
\* checkpoint and resume from it when it matches the job
StartSyncJob(in, doc, budget) ==
    /\    LET cs == ChunkSegments(doc, counter, budget)
              j == Job(in[1], in[2], budget, Len(cs))
              checkpoint == Load(disk)
              accepted == CheckpointMatches(checkpoint, "real-time", j)
              key == <<in, doc, budget, "sync">>
          IN  /\ segments' = doc
              /\ streak_key' = key
              /\ prior_calls' = IF key = streak_key THEN prior_calls ELSE {}
              /\ prior_last' = IF key = streak_key THEN prior_last ELSE -1
              /\ max_tokens' = budget
              /\ chunks' = cs
              /\ job' = j
              /\ found' = checkpoint
              /\ IF LoadRaises(disk)
                 THEN /\ pc' = "failed"
                      /\ error' = "checkpoint_decode"
                      /\ UNCHANGED <<start_chunk, translated_segments,
                                     history>>
                      /\ resumed' = FALSE
                 ELSE IF accepted /\ BadField(disk) \in
                            {"last_completed_chunk", "translated_segments"}
                 THEN /\ pc' = "failed"
                      /\ error' = "checkpoint_type"
                      /\ UNCHANGED <<start_chunk, translated_segments,
                                     history>>
                      /\ resumed' = FALSE
                 ELSE IF accepted
                 THEN /\ start_chunk' = ResumeIndex(checkpoint)
                      /\ translated_segments' =
                            DeserializeSegments(checkpoint.translated_segments)
                      /\ history' = checkpoint.context_history
                      /\ resumed' = TRUE
                      /\ pc' = "translate"
                      /\ error' = None
                 ELSE /\ start_chunk' = 0
                      /\ translated_segments' = <<>>
                      /\ UNCHANGED history
                      /\ resumed' = FALSE
                      /\ pc' = "translate"
                      /\ error' = None
    /\ next_chunk' = start_chunk'
    /\ mode' = "sync"
    /\ attempt' = 0
    /\ output' = NoOutput
    /\ calls' = {}
    /\ identity' = TRUE
    /\ context' = NoContext
    /\ returned' = <<>>
    /\ asked' = {}
    /\ batch_id' = NoBatch
    /\ status' = NoStatus
    /\ results' = <<>>
    /\ first_call' = NoCall
    /\ run_submits' = 0
    /\ streak_submits' = 0
    /\ UNCHANGED <<counter, context_length, llm, fileVars, storeVars,
                   crashes, submits>>

\* one more invocation of translate_file, for any job
StartSync ==
    /\ CanStart("sync")
    /\ runs < MaxRuns
    /\ runs' = runs + 1
    /\ \E in \in JobInputs, doc \in JobDocs, budget \in JobBudgets :
          StartSyncJob(in, doc, budget)

\* the chunk the loop is at
CurrentChunk == chunks[next_chunk + 1]

\* one attempt of _translate_chunk fails and tenacity retries
TranslateRetry ==
    /\ pc = "translate"
    /\ next_chunk < Len(chunks)
    /\ HasTranslatable(CurrentChunk)
    /\ attempt + 1 < MaxAttempts
    /\ attempt' = attempt + 1
    /\ UNCHANGED <<batchVars, streakVars, pc, chunkVars, fileVars, storeVars,
                   crashes, mode, job, start_chunk, next_chunk,
                   translated_segments, resumed, history, output, error, runs,
                   ghostVars>>

\* TranslateGivesUp recording the chunk as complete before it raises
TranslateGivesUpMarksComplete ==
    /\ pc = "translate"
    /\ next_chunk < Len(chunks)
    /\ HasTranslatable(CurrentChunk)
    /\ attempt + 1 = MaxAttempts
    /\ attempt' = 0
    /\ pc' = "failed"
    /\ error' = "translate"
    /\ disk' = CompleteFile(
                   SyncCheckpoint(job, CurrentChunk.chunk_index,
                                  SerializeSegments(translated_segments),
                                  history))
    /\ UNCHANGED <<batchVars, streakVars, chunkVars, fileVars, temp, leaked,
                   save_pc, save_prev, save_new, save_at, crashes, mode, job,
                   start_chunk, next_chunk, translated_segments, resumed,
                   history, output, runs, ghostVars>>

\* the last attempt fails: reraise=True, the exception leaves translate_file
TranslateGivesUp ==
    /\ pc = "translate"
    /\ next_chunk < Len(chunks)
    /\ HasTranslatable(CurrentChunk)
    /\ attempt + 1 = MaxAttempts
    /\ attempt' = 0
    /\ pc' = "failed"
    /\ error' = "translate"
    /\ UNCHANGED <<batchVars, streakVars, chunkVars, fileVars, storeVars,
                   crashes, mode, job, start_chunk, next_chunk,
                   translated_segments, resumed, history, output, runs,
                   ghostVars>>

\* get_context, _translate_chunk (an attempt that succeeds) and
\* translated_segments.extend(translated_chunk)
TranslateNext ==
    /\ pc = "translate"
    /\ next_chunk < Len(chunks)
    /\ LET chunk == CurrentChunk IN
       IF ~HasTranslatable(chunk)
       THEN /\ translated_segments' = translated_segments \o chunk.segments
            /\ UNCHANGED <<batchVars, streakVars, history, calls, identity,
                           context, returned>>
       ELSE \E translated_text \in Responses(CombinedText(chunk)) :
              /\ context' = GetContext(history, chunk.chunk_index,
                                       context_length)
              /\ returned' = Append(returned, [index |-> chunk.chunk_index,
                                               text |-> translated_text])
              /\ translated_segments' =
                    translated_segments \o TranslateChunk(chunk, translated_text)
              /\ history' = Append(history, translated_text)
              /\ calls' = calls \cup {chunk.chunk_index}
              /\ identity' = (identity /\ translated_text = CombinedText(chunk))
    /\ attempt' = 0
    /\ pc' = "save"
    /\ UNCHANGED <<batchVars, streakVars, chunkVars, fileVars, storeVars,
                   crashes, mode, job, start_chunk, next_chunk, resumed,
                   output, error, runs, found, asked>>

\* SaveProgress recording the chunk before the current one as the last
SaveProgressLagging ==
    /\ pc = "save"
    /\ disk' = CompleteFile(
                   SyncCheckpoint(job, CurrentChunk.chunk_index - 1,
                                  SerializeSegments(translated_segments),
                                  history))
    /\ next_chunk' = next_chunk + 1
    /\ pc' = "translate"
    /\ UNCHANGED <<batchVars, streakVars, chunkVars, fileVars, temp, leaked,
                   save_pc, save_prev, save_new, save_at, crashes, mode, job,
                   start_chunk, translated_segments, resumed, history, attempt,
                   output, error, runs, ghostVars>>

\* checkpoint_mgr.save(CheckpointData(...)) after the chunk
SaveProgress ==
    /\ pc = "save"
    /\ disk' = CompleteFile(
                   SyncCheckpoint(job, CurrentChunk.chunk_index,
                                  SerializeSegments(translated_segments),
                                  history))
    /\ next_chunk' = next_chunk + 1
    /\ pc' = "translate"
    /\ UNCHANGED <<batchVars, streakVars, chunkVars, fileVars, temp, leaked,
                   save_pc, save_prev, save_new, save_at, crashes, mode, job,
                   start_chunk, translated_segments, resumed, history, attempt,
                   output, error, runs, ghostVars>>

\* parser.write(translated_segments, output_path, input_path)
WriteOutput ==
    /\ pc = "translate"
    /\ next_chunk >= Len(chunks)
    /\ output' = translated_segments
    /\ pc' = "clean"
    /\ UNCHANGED <<batchVars, streakVars, chunkVars, fileVars, storeVars,
                   crashes, mode, job, start_chunk, next_chunk,
                   translated_segments, resumed, history, attempt, error, runs,
                   ghostVars>>

\* CleanCheckpoint returning with the checkpoint file left in place
CleanCheckpointKeepsFile ==
    /\ pc = "clean"
    /\ pc' = "done"
    /\ UNCHANGED <<batchVars, streakVars, chunkVars, fileVars, storeVars,
                   crashes, runVars, ghostVars>>

\* checkpoint_mgr.clean() and return
CleanCheckpoint ==
    /\ pc = "clean"
    /\ disk' = NoFile
    /\ pc' = "done"
    /\ UNCHANGED <<batchVars, streakVars, chunkVars, fileVars, temp, leaked,
                   save_pc, save_prev, save_new, save_at, crashes, runVars,
                   ghostVars>>

(***************************************************************************)
(* BatchTranslationEngine.translate_file_batch                             *)
(***************************************************************************)
\* custom_id = f"chunk-{i}"
CustomId(i) == <<"chunk-", i>>

\* BatchRequestsFrom with a request for every chunk
RECURSIVE BatchRequestsFromEveryChunk(_, _)
BatchRequestsFromEveryChunk(cs, i) ==
    IF i > Len(cs) THEN <<>>
    ELSE <<[custom_id |-> CustomId(i - 1), text |-> CombinedText(cs[i])]>>
         \o BatchRequestsFromEveryChunk(cs, i + 1)

\* step 3: batch_requests, built by the loop over enumerate(chunks)
RECURSIVE BatchRequestsFrom(_, _)
BatchRequestsFrom(cs, i) ==
    IF i > Len(cs) THEN <<>>
    ELSE (IF ~HasTranslatable(cs[i]) THEN <<>>
          ELSE <<[custom_id |-> CustomId(i - 1),
                  text |-> CombinedText(cs[i])]>>)
         \o BatchRequestsFrom(cs, i + 1)

BatchRequests(cs) == BatchRequestsFrom(cs, 1)

\* the chunk indices a request was built for (the keys of chunk_mapping)
RequestIndices(cs) ==
    LET reqs == BatchRequests(cs) IN
    {i \in 0..(Len(cs) - 1) :
        \E k \in 1..Len(reqs) : reqs[k].custom_id = CustomId(i)}

\* chunk_mapping_serialized: custom_id "chunk-i" -> {index, segments}
ChunkMapping(cs) ==
    [i \in RequestIndices(cs) |->
        [index |-> i, segments |-> SerializeSegments(cs[i + 1].segments)]]

\* and checkpoint.batch_id
Truthy(id) == id # NoBatch

\* BatchResumeId resuming only from a checkpoint of stage "polling"
BatchResumeIdPollingOnly(checkpoint, j) ==
    IF /\ CheckpointMatches(checkpoint, "batch", j)
       /\ Truthy(checkpoint.batch_id)
       /\ checkpoint.batch_stage = "polling"
    THEN checkpoint.batch_id ELSE NoBatch

\* the batch_id taken from the checkpoint: None unless it matches the job
BatchResumeId(checkpoint, j) ==
    IF CheckpointMatches(checkpoint, "batch", j) /\ Truthy(checkpoint.batch_id)
    THEN checkpoint.batch_id ELSE NoBatch

\* what get_batch_status may return when n requests were submitted: a
\* status and the number of requests that are done
StatusValues(n) ==
    {[status |-> "processing", completed |-> 0],
     [status |-> "processing", completed |-> n - 1],
     [status |-> "failed", completed |-> 0],
     [status |-> "canceling", completed |-> 0],
     [status |-> "completed", completed |-> n]}

\* what get_batch_results may hold for a request: a BatchResult with a
\* text, with an error, with both, with neither (or the text ""), or no
\* BatchResult at all
RequestOutcomes ==
    {[kind |-> "text", text |-> <<"b">>], [kind |-> "error"],
     [kind |-> "text_error", text |-> <<"b">>], [kind |-> "empty"],
     [kind |-> "missing"]}

\* if result.translated_text: translations[result.custom_id] = ...
HasText(r) == r.kind \in {"text", "text_error"} /\ r.text # <<>>

ResultSets(cs) ==
    LET requested == RequestIndices(cs) IN
    {r \in [1..Len(cs) -> RequestOutcomes \cup {[kind |-> "unrequested"]}] :
        \A i \in 1..Len(cs) :
            (r[i].kind = "unrequested") <=> (i - 1) \notin requested}

\* steps 7 and 8: the segments of every chunk, with the returned text split
\* over the translatable ones when there is a text for "chunk-i"
\* AssembleFrom leaving out the chunks that have no translation
RECURSIVE AssembleFromDropsFailed(_, _, _)
AssembleFromDropsFailed(cs, rs, i) ==
    IF i > Len(cs) THEN <<>>
    ELSE (IF HasText(rs[i])
          THEN Reconstruct(cs[i].segments, rs[i].text)
          ELSE <<>>) \o AssembleFromDropsFailed(cs, rs, i + 1)

RECURSIVE AssembleFrom(_, _, _)
AssembleFrom(cs, rs, i) ==
    IF i > Len(cs) THEN <<>>
    ELSE (IF HasText(rs[i])
          THEN Reconstruct(cs[i].segments, rs[i].text)
          ELSE cs[i].segments) \o AssembleFrom(cs, rs, i + 1)

Assemble(cs, rs) == AssembleFrom(cs, rs, 1)

\* translate_file_batch up to step 4: parse, chunk, build the requests, load
\* the checkpoint and take its batch_id when it matches the job
StartBatchJob(in, doc, budget) ==
    /\    LET cs == ChunkSegments(doc, counter, budget)
              j == Job(in[1], in[2], budget, Len(cs))
              checkpoint == Load(disk)
              id == BatchResumeId(checkpoint, j)
              key == <<in, doc, budget>>
          IN  /\ segments' = doc
              /\ max_tokens' = budget
              /\ chunks' = cs
              /\ job' = j
              /\ streak_key' = key
              /\ streak_submits' = IF key = streak_key THEN streak_submits ELSE 0
              /\ IF BatchRequests(cs) = <<>>
                 THEN /\ output' = doc
                      /\ pc' = "done"
                      /\ error' = None
                      /\ found' = NoCheckpoint
                      /\ batch_id' = NoBatch
                      /\ resumed' = FALSE
                 ELSE IF LoadRaises(disk)
                 THEN /\ output' = NoOutput
                      /\ pc' = "failed"
                      /\ error' = "checkpoint_decode"
                      /\ found' = NoCheckpoint
                      /\ batch_id' = NoBatch
                      /\ resumed' = FALSE
                 ELSE /\ output' = NoOutput
                      /\ pc' = IF id = NoBatch THEN "b_submit" ELSE "b_poll"
                      /\ error' = None
                      /\ found' = checkpoint
                      /\ batch_id' = id
                      /\ resumed' = (id # NoBatch)
    /\ mode' = "batch"
    /\ start_chunk' = 0
    /\ next_chunk' = 0
    /\ translated_segments' = <<>>
    /\ attempt' = 0
    /\ calls' = {}
    /\ identity' = TRUE
    /\ context' = NoContext
    /\ returned' = <<>>
    /\ asked' = {}
    /\ status' = NoStatus
    /\ results' = <<>>
    /\ first_call' = NoCall
    /\ run_submits' = 0
    /\ prior_calls' = {}
    /\ prior_last' = -1
    /\ UNCHANGED <<counter, context_length, llm, fileVars, storeVars,
                   crashes, history, submits>>

\* one more invocation of translate_file_batch, for any job
StartBatch ==
    /\ CanStart("batch")
    /\ runs < MaxRuns
    /\ runs' = runs + 1
    /\ \E in \in JobInputs, doc \in JobDocs, budget \in JobBudgets :
          StartBatchJob(in, doc, budget)

\* the first call of the run to the batch service, once it is made
FirstCall(call) == IF first_call = NoCall THEN call ELSE first_call

\* batch_id = await self.llm.create_batch(batch_requests)
SubmitBatch ==
    /\ pc = "b_submit"
    /\ submits' = submits + 1
    /\ batch_id' = submits + 1
    /\ run_submits' = run_submits + 1
    /\ streak_submits' = streak_submits + 1
    /\ first_call' = FirstCall(<<"create_batch", NoBatch>>)
    /\ pc' = "b_save_submitted"
    /\ UNCHANGED <<chunkVars, fileVars, storeVars, crashes, runVars, ghostVars,
                   status, results, streak_key, prior_calls, prior_last>>

\* SaveBatchCheckpoint storing no batch_id
SaveBatchCheckpointNoId(last_completed_chunk, stage) ==
    /\ disk' = CompleteFile(
                   BatchCheckpoint(job, last_completed_chunk, NoBatch, stage,
                                   ChunkMapping(chunks)))
    /\ UNCHANGED <<temp, leaked, save_pc, save_prev, save_new, save_at>>

\* the save of a batch checkpoint with the given progress and stage
SaveBatchCheckpoint(last_completed_chunk, stage) ==
    /\ disk' = CompleteFile(
                   BatchCheckpoint(job, last_completed_chunk, batch_id, stage,
                                   ChunkMapping(chunks)))
    /\ UNCHANGED <<temp, leaked, save_pc, save_prev, save_new, save_at>>

\* the checkpoint of stage "submitted", right after create_batch
SaveSubmitted ==
    /\ pc = "b_save_submitted"
    /\ SaveBatchCheckpoint(-1, "submitted")
    /\ pc' = "b_poll"
    /\ UNCHANGED <<chunkVars, fileVars, crashes, runVars, ghostVars, batchVars,
                   streakVars>>

\* status = await self.llm.get_batch_status(batch_id)
PollStatus ==
    /\ pc = "b_poll"
    /\ status' \in StatusValues(Len(BatchRequests(chunks)))
    /\ first_call' = FirstCall(<<"get_batch_status", batch_id>>)
    /\ asked' = asked \cup {batch_id}
    /\ pc' = "b_save_polling"
    /\ UNCHANGED <<chunkVars, fileVars, storeVars, crashes, runVars, found,
                   calls, identity, context, returned, batch_id, results,
                   submits, run_submits, streakVars>>

\* SavePolling leaving the loop with an error when the batch has failed
SavePollingGivesUpOnFailed ==
    /\ pc = "b_save_polling"
    /\ SaveBatchCheckpoint(status.completed - 1, "polling")
    /\ pc' = IF status.status = "completed" THEN "b_fetch"
             ELSE IF status.status = "failed" THEN "failed" ELSE "b_poll"
    /\ UNCHANGED <<chunkVars, fileVars, crashes, runVars, ghostVars, batchVars,
                   streakVars>>

\* SavePolling writing no checkpoint for the poll that reports completion
SavePollingNotAtCompletion ==
    /\ pc = "b_save_polling"
    /\ IF status.status = "completed"
       THEN UNCHANGED storeVars
       ELSE SaveBatchCheckpoint(status.completed - 1, "polling")
    /\ pc' = IF status.status = "completed" THEN "b_fetch" ELSE "b_poll"
    /\ UNCHANGED <<chunkVars, fileVars, crashes, runVars, ghostVars, batchVars,
                   streakVars>>

\* the checkpoint of stage "polling"; then leave the loop on "completed",
\* else asyncio.sleep(poll_interval) and poll again
SavePolling ==
    /\ pc = "b_save_polling"
    /\ SaveBatchCheckpoint(status.completed - 1, "polling")
    /\ pc' = IF status.status = "completed" THEN "b_fetch" ELSE "b_poll"
    /\ UNCHANGED <<chunkVars, fileVars, crashes, runVars, ghostVars, batchVars,
                   streakVars>>

\* results = await self.llm.get_batch_results(batch_id)
FetchResults ==
    /\ pc = "b_fetch"
    /\ results' \in ResultSets(chunks)
    /\ asked' = asked \cup {batch_id}
    /\ pc' = "b_save_fetched"
    /\ UNCHANGED <<chunkVars, fileVars, storeVars, crashes, runVars, found,
                   calls, identity, context, returned, batch_id, status,
                   submits, first_call, run_submits, streakVars>>

\* SaveFetched going on to the assembly without writing the checkpoint
SaveFetchedSkipped ==
    /\ pc = "b_save_fetched"
    /\ pc' = "b_write"
    /\ UNCHANGED <<chunkVars, fileVars, storeVars, crashes, runVars, ghostVars,
                   batchVars, streakVars>>

\* the checkpoint of stage "results_fetched"
SaveFetched ==
    /\ pc = "b_save_fetched"
    /\ SaveBatchCheckpoint(Len(chunks) - 1, "results_fetched")
    /\ pc' = "b_write"
    /\ UNCHANGED <<chunkVars, fileVars, crashes, runVars, ghostVars, batchVars,
                   streakVars>>

\* steps 7 to 9: build the segments and parser.write them
WriteBatchOutput ==
    /\ pc = "b_write"
    /\ translated_segments' = Assemble(chunks, results)
    /\ output' = translated_segments'
    /\ pc' = "b_clean"
    /\ UNCHANGED <<chunkVars, fileVars, storeVars, crashes, mode, job,
                   start_chunk, next_chunk, resumed, history, attempt, error,
                   runs, ghostVars, batchVars, streakVars>>

\* CleanBatch returning with the checkpoint file left in place
CleanBatchKeepsFile ==
    /\ pc = "b_clean"
    /\ pc' = "done"
    /\ UNCHANGED <<chunkVars, fileVars, storeVars, crashes, runVars, ghostVars,
                   batchVars, streakVars>>

\* step 10: checkpoint_mgr.clean(), and return
CleanBatch ==
    /\ pc = "b_clean"
    /\ disk' = NoFile
    /\ pc' = "done"
    /\ streak_key' = NoKey
    /\ streak_submits' = 0
    /\ UNCHANGED <<chunkVars, fileVars, temp, leaked, save_pc, save_prev,
                   save_new, save_at, crashes, runVars, ghostVars, batchVars,
                   prior_calls, prior_last>>

\* what a new process starts with: no call running, a new engine with an
\* empty ContextManager; the files stay as they are
ProcessReset ==
    /\ pc' = "idle"
    /\ segments' = <<>>
    /\ max_tokens' = 0
    /\ chunks' = <<>>
    /\ mode' = None
    /\ job' = NoJob
    /\ start_chunk' = 0
    /\ next_chunk' = 0
    /\ translated_segments' = <<>>
    /\ resumed' = FALSE
    /\ history' = <<>>
    /\ attempt' = 0
    /\ output' = NoOutput
    /\ error' = None
    /\ found' = NoCheckpoint
    /\ calls' = {}
    /\ identity' = TRUE
    /\ context' = NoContext
    /\ returned' = <<>>
    /\ asked' = {}
    /\ batch_id' = NoBatch
    /\ status' = NoStatus
    /\ results' = <<>>
    /\ first_call' = NoCall
    /\ run_submits' = 0
    /\ UNCHANGED <<counter, context_length, llm, fileVars, storeVars, runs,
                   submits, streak_key,
                   streak_submits>>

\* the largest chunk index of a set of calls
LastOf(indices) == CHOOSE i \in indices : \A j \in indices : j <= i

\* the call ended without returning: its completed transformations are
\* remembered for the next invocation of the same job
Halted ==
    /\ prior_calls' = prior_calls \cup calls
    /\ prior_last' = IF calls = {} THEN prior_last ELSE LastOf(calls)

\* the process is killed while an orchestrator runs
Crash ==
    /\ pc \notin {"idle", "done", "failed"}
    /\ UNCHANGED crashes
    /\ Halted
    /\ ProcessReset

\* the process ends after the call returned or raised
Exit ==
    /\ pc \in {"done", "failed"}
    /\ UNCHANGED crashes
    /\ IF pc = "failed" THEN Halted
       ELSE prior_calls' = {} /\ prior_last' = -1
    /\ ProcessReset

Next ==
    \/ StartSync
    \/ TranslateRetry
    \/ TranslateGivesUp
    \/ TranslateNext
    \/ SaveProgress
    \/ WriteOutput
    \/ CleanCheckpoint
    \/ StartBatch
    \/ SubmitBatch
    \/ SaveSubmitted
    \/ PollStatus
    \/ SavePolling
    \/ FetchResults
    \/ SaveFetched
    \/ WriteBatchOutput
    \/ CleanBatch
    \/ Crash
    \/ Exit

Spec == Init /\ [][Next]_vars

(***************************************************************************)
(* The orchestrators with the calls that can raise inside them:            *)
(* checkpoint_mgr.save (it re-raises after removing its temporary file)    *)
(* and parser.write.  Neither is caught, so the exception ends the call.   *)
(***************************************************************************)
\* SaveRaises at the save after create_batch going on to the poll
SaveRaisesGoesOn ==
    /\ pc \in {"save", "b_save_submitted", "b_save_polling", "b_save_fetched"}
    /\ pc' = IF pc = "b_save_submitted" THEN "b_poll" ELSE "failed"
    /\ error' = IF pc = "b_save_submitted" THEN None ELSE "save"
    /\ UNCHANGED <<chunkVars, fileVars, storeVars, crashes, mode, job,
                   start_chunk, next_chunk, translated_segments, resumed,
                   history, attempt, output, runs, ghostVars, batchVars,
                   streakVars>>

\* checkpoint_mgr.save raises: the checkpoint file stays as it was
SaveRaises ==
    /\ pc \in {"save", "b_save_submitted", "b_save_polling", "b_save_fetched"}
    /\ pc' = "failed"
    /\ error' = "save"
    /\ UNCHANGED <<chunkVars, fileVars, storeVars, crashes, mode, job,
                   start_chunk, next_chunk, translated_segments, resumed,
                   history, attempt, output, runs, ghostVars, batchVars,
                   streakVars>>

\* WriteRaises removing the checkpoint on its way out
WriteRaisesClearsCheckpoint ==
    /\ \/ pc = "translate" /\ next_chunk >= Len(chunks)
       \/ pc = "b_write"
    /\ pc' = "failed"
    /\ error' = "write"
    /\ disk' = NoFile
    /\ UNCHANGED <<chunkVars, fileVars, temp, leaked, save_pc, save_prev,
                   save_new, save_at, crashes, mode, job, start_chunk,
                   next_chunk, translated_segments, resumed, history, attempt,
                   output, runs, ghostVars, batchVars, streakVars>>

\* parser.write raises: clean() is not reached
WriteRaises ==
    /\ \/ pc = "translate" /\ next_chunk >= Len(chunks)
       \/ pc = "b_write"
    /\ pc' = "failed"
    /\ error' = "write"
    /\ UNCHANGED <<chunkVars, fileVars, storeVars, crashes, mode, job,
                   start_chunk, next_chunk, translated_segments, resumed,
                   history, attempt, output, runs, ghostVars, batchVars,
                   streakVars>>

NextFaults ==
    \/ Next
    \/ SaveRaises
    \/ WriteRaises

SpecFaults == Init /\ [][NextFaults]_vars

(***************************************************************************)
(* One sync job invoked again and again: the same input, document and      *)
(* chunk size at every invocation, the process killed at most MaxCrashes   *)
(* times, a new invocation after every kill and every failure.  A call     *)
(* that is running goes on, and a transformation that is attempted again   *)
(* and again succeeds at some attempt.                                     *)
(***************************************************************************)
Reinvoke ==
    /\ CanStart("sync")
    /\ \E doc \in JobDocs, budget \in JobBudgets :
          /\ streak_key \in {NoKey, <<<<"in1", "fr">>, doc, budget, "sync">>}
          /\ StartSyncJob(<<"in1", "fr">>, doc, budget)
    /\ UNCHANGED runs

KillSync ==
    /\ pc \notin {"idle", "done", "failed"}
    /\ crashes < MaxCrashes
    /\ crashes' = crashes + 1
    /\ Halted
    /\ ProcessReset

ExitFailed ==
    /\ pc = "failed"
    /\ Exit

NextResume ==
    \/ Reinvoke
    \/ TranslateRetry
    \/ TranslateGivesUp
    \/ TranslateNext
    \/ SaveProgress
    \/ WriteOutput
    \/ CleanCheckpoint
    \/ KillSync
    \/ ExitFailed

\* Reinvoke seen through pc: it is the one step of NextResume that leaves
\* "idle", and it can be taken in every idle state
LeaveIdle == pc = "idle" /\ pc' \in {"translate", "failed"}

\* every one of these steps changes pc
FairResume ==
    /\ WF_pc(LeaveIdle)
    /\ WF_pc(ExitFailed)
    /\ SF_pc(TranslateNext)
    /\ WF_pc(SaveProgress)
    /\ WF_pc(WriteOutput)
    /\ WF_pc(CleanCheckpoint)

SpecResume == Init /\ [][NextResume]_vars /\ FairResume

(***************************************************************************)
(* The reconstruction of a chunk alone: any chunk of any document, any     *)
(* text of at most MaxResponse characters returned for it, through         *)
(* _translate_chunk and through steps 7 and 8 of translate_file_batch.     *)
(***************************************************************************)
RECURSIVE ResponsesOfLen(_)
ResponsesOfLen(n) ==
    IF n = 0 THEN {<<>>}
    ELSE {Append(t, c) : t \in ResponsesOfLen(n - 1), c \in {"b", NL}}

ResponseTexts == UNION {ResponsesOfLen(n) : n \in 0..MaxResponse}

InitReconstruct ==
    /\ pc = "chunked"
    /\ segments \in Docs
    /\ counter = "chars"
    /\ context_length = ContextLength
    /\ llm = AnyProvider
    /\ max_tokens = MaxBudget - 1
    /\ chunks = ChunkSegments(segments, counter, max_tokens)
    /\ StoreIdle
    /\ crashes = 0
    /\ RunIdle
    /\ BatchIdle

\* _translate_chunk for one of the chunks, llm.translate returning any text
TranslateAnyChunk ==
    /\ pc = "chunked"
    /\ \E i \in 1..Len(chunks), translated_text \in ResponseTexts :
          /\ next_chunk' = i - 1
          /\ IF ~HasTranslatable(chunks[i])
             THEN /\ translated_segments' = chunks[i].segments
                  /\ UNCHANGED history
             ELSE /\ translated_segments' =
                        TranslateChunk(chunks[i], translated_text)
                  /\ history' = Append(history, translated_text)
    /\ pc' = "translated"
    /\ UNCHANGED <<chunkVars, fileVars, storeVars, crashes, mode, job,
                   start_chunk, resumed, attempt, output, error, runs,
                   ghostVars, batchVars, streakVars>>

\* steps 7 and 8 with any text returned for every request
AssembleAnyResults ==
    /\ pc = "chunked"
    /\ chunks # <<>>
    /\ \E translated_text \in ResponseTexts :
          results' = [i \in 1..Len(chunks) |->
                        IF (i - 1) \in RequestIndices(chunks)
                        THEN [kind |-> "text", text |-> translated_text]
                        ELSE [kind |-> "unrequested"]]
    /\ translated_segments' = Assemble(chunks, results')
    /\ output' = translated_segments'
    /\ pc' = "assembled"
    /\ UNCHANGED <<chunkVars, fileVars, storeVars, crashes, mode, job,
                   start_chunk, next_chunk, resumed, history, attempt, error,
                   runs, ghostVars, batch_id, status, submits, first_call,
                   run_submits, streakVars>>

NextReconstruct ==
    \/ TranslateAnyChunk
    \/ AssembleAnyResults

SpecReconstruct == InitReconstruct /\ [][NextReconstruct]_vars

(***************************************************************************)
(* The checkpoint file damaged from outside between two processes: cut     *)
(* short, replaced by other JSON, by bytes that are not UTF-8, or by the    *)
(* JSON of an object with the right keys and a value of the wrong type.    *)
(***************************************************************************)
DamagedFiles(f) ==
    {JsonFile(f.data, 0), [kind |-> "json_other"], [kind |-> "invalid_utf8"]}
    \cup {[kind |-> "wrong_types", data |-> f.data, bad |-> field] :
             field \in {"last_completed_chunk", "translated_segments",
                        "chunk_size"}}

CorruptCheckpoint ==
    /\ pc = "idle"
    /\ IsComplete(disk)
    /\ disk' \in DamagedFiles(disk)
    /\ UNCHANGED <<pc, chunkVars, fileVars, temp, leaked, save_pc, save_prev,
                   save_new, save_at, crashes, runVars, ghostVars, batchVars,
                   streakVars>>

NextCorrupt ==
    \/ Next
    \/ CorruptCheckpoint

SpecCorrupt == Init /\ [][NextCorrupt]_vars

(***************************************************************************)
(* Helpers of the claims about the chunker.                                *)
(***************************************************************************)
\* the segments of all chunks, in chunk order
RECURSIVE FlattenFrom(_, _)
FlattenFrom(cs, i) ==
    IF i > Len(cs) THEN <<>> ELSE cs[i].segments \o FlattenFrom(cs, i + 1)

Flatten(cs) == FlattenFrom(cs, 1)

Oversized(seg, tc, max) ==
    ~seg.skip_translation /\ CountTokens(tc, seg.text) > max

\* the input with every oversized segment replaced, in place, by its pieces
RECURSIVE ExpandFrom(_, _, _, _)
ExpandFrom(segs, i, tc, max) ==
    IF i > Len(segs) THEN <<>>
    ELSE (IF Oversized(segs[i], tc, max)
          THEN SplitLargeSegment(segs[i], tc, max)
          ELSE <<segs[i]>>) \o ExpandFrom(segs, i + 1, tc, max)

Expand(segs, tc, max) == ExpandFrom(segs, 1, tc, max)

\* a text that the sentence split does not divide
IsSingleSentence(t) == Len(SentenceSplit(t)) = 1

(***************************************************************************)
(* C1 as stated: the segments of the chunks, concatenated in chunk order,  *)
(* are exactly the input segment sequence.                                 *)
(***************************************************************************)
C1_ConcatIsInput ==
    pc = "chunked" => Flatten(chunks) = segments

(***************************************************************************)
(* C1 amended: the concatenation is the input with each translatable       *)
(* segment whose cost exceeds the budget replaced in place by its sentence *)
(* pieces; with no such segment it is the input itself.                    *)
(***************************************************************************)
C1_ConcatIsExpandedInput ==
    pc = "chunked" =>
        /\ Flatten(chunks) = Expand(segments, counter, max_tokens)
        /\ (\A i \in 1..Len(segments) :
                ~Oversized(segments[i], counter, max_tokens))
           => Flatten(chunks) = segments

C1_Witness ==
    /\ pc = "chunked"
    /\ Len(chunks) >= 3
    /\ \E i \in 1..Len(segments) : Oversized(segments[i], counter, max_tokens)
    /\ \E i \in 1..Len(segments) : segments[i].skip_translation
    /\ Flatten(chunks) # segments

(***************************************************************************)
(* C2: every chunk's token_count is within the budget, except a chunk of   *)
(* exactly one segment that is a single sentence.                          *)
(***************************************************************************)
C2_TokenCountWithinBudget ==
    pc = "chunked" =>
        \A i \in 1..Len(chunks) :
            \/ chunks[i].token_count <= max_tokens
            \/ /\ Len(chunks[i].segments) = 1
               /\ ~chunks[i].segments[1].skip_translation
               /\ IsSingleSentence(chunks[i].segments[1].text)

C2_Witness ==
    /\ pc = "chunked"
    /\ \E i \in 1..Len(chunks) : chunks[i].token_count > max_tokens
    /\ \E i \in 1..Len(chunks) :
           /\ Len(chunks[i].segments) >= 2
           /\ chunks[i].token_count > 0
           /\ chunks[i].token_count <= max_tokens

(***************************************************************************)
(* C8: whatever step of save the process is killed at, the checkpoint path *)
(* holds the complete previous checkpoint (or nothing, if there was none)  *)
(* or the complete new one, never a partially written file.                *)
(***************************************************************************)
C8_SaveCrashAtomic ==
    /\ disk = NoFile \/ IsComplete(disk)
    /\ save_pc \in {"writing", "killed", "returned", "raised"} =>
           disk = save_prev \/ disk = CompleteFile(save_new)
    /\ save_pc = "writing" => disk = save_prev
    /\ save_pc = "returned" => disk = CompleteFile(save_new)

C8_Witness ==
    /\ save_pc = "killed"
    /\ save_at > 0
    /\ save_at < SaveParts
    /\ temp = JsonFile(save_new, save_at)
    /\ IsComplete(disk)
    /\ disk = save_prev
    /\ disk.data # save_new

(***************************************************************************)
(* C9: when save fails while serialising, the temporary file is gone, the  *)
(* failure reaches the caller and the checkpoint path holds what it held   *)
(* before the save.                                                        *)
(***************************************************************************)
C9_FailedSaveLeavesPrevious ==
    save_pc = "raised" => temp = NoFile /\ disk = save_prev

C9_Witness ==
    /\ save_pc = "raised"
    /\ save_at > 0
    /\ save_at < SaveParts
    /\ IsComplete(disk)
    /\ disk.data # save_new

(***************************************************************************)
(* Helpers of the claims about the orchestrators.                          *)
(***************************************************************************)
EngineType == IF mode = "sync" THEN "real-time" ELSE "batch"

\* the checkpoint found at the start equals the call in the four fields
FoundMatchesJob ==
    /\ found.engine_type = EngineType
    /\ found.input_path = job.input_path
    /\ found.target_language = job.target_language
    /\ found.total_chunks = Len(chunks)

IsPrefix(p, q) == Len(p) <= Len(q) /\ SubSeq(q, 1, Len(p)) = p

(***************************************************************************)
(* C3: a sync run over a whole document in which every transformation      *)
(* returned its input writes the segment texts of the document, in order   *)
(* (so the written text is the text of the document).                      *)
(***************************************************************************)
C3_IdentityRoundTrip ==
    (mode = "sync" /\ pc = "done" /\ ~resumed /\ identity) =>
        /\ SegmentTexts(output) = SegmentTexts(segments)
        /\ Join(SegmentTexts(output), Separator)
             = Join(SegmentTexts(segments), Separator)

(***************************************************************************)
(* C4: a sync run that accepted a checkpoint with last_completed_chunk = k *)
(* calls the transformation only for chunks after k (and, by the time it   *)
(* writes, for each of them that has translatable text), and its segments  *)
(* begin with the checkpoint's translated_segments, unchanged.             *)
(***************************************************************************)
C4_ResumeSkipsCompleted ==
    (mode = "sync" /\ resumed) =>
        LET k == found.last_completed_chunk
            prior == DeserializeSegments(found.translated_segments)
        IN  /\ \A i \in calls : i > k
            /\ IsPrefix(prior, translated_segments)
            /\ pc \in {"clean", "done"} =>
                  /\ IsPrefix(prior, output)
                  /\ calls = {i \in (k + 1)..(Len(chunks) - 1) :
                                HasTranslatable(chunks[i + 1])}

C4_Witness ==
    /\ mode = "sync"
    /\ resumed
    /\ pc = "done"
    /\ found.last_completed_chunk = 0
    /\ found.translated_segments # <<>>
    /\ Len(chunks) = 3
    /\ calls = {1, 2}

(***************************************************************************)
(* C5: a run resumes only from a checkpoint whose mode, input path, target *)
(* language and total_chunks are those of the call; with any of them       *)
(* different it does not resume: sync starts at chunk 0 with no segments,  *)
(* batch begins with a submission.                                         *)
(***************************************************************************)
C5_ResumeOnlyOnMatch ==
    pc # "idle" =>
        /\ resumed => FoundMatchesJob
        /\ ~FoundMatchesJob =>
              /\ ~resumed
              /\ mode = "sync" => start_chunk = 0
              /\ (mode = "sync" /\ pc = "translate" /\ next_chunk = 0) =>
                    translated_segments = <<>>
              /\ (mode = "batch" /\ first_call # NoCall) =>
                    first_call[1] = "create_batch"

C5_Witness ==
    /\ pc = "done"
    /\ mode = "sync"
    /\ ~resumed
    /\ found.engine_type = "real-time"
    /\ found.input_path = job.input_path
    /\ found.target_language = job.target_language
    /\ found.total_chunks # Len(chunks)
    /\ calls # {}

(***************************************************************************)
(* C6: a batch run that finds a matching batch checkpoint with a batch_id, *)
(* whatever its stage, never calls create_batch; its first call to the     *)
(* service is get_batch_status with the recorded id.                       *)
(***************************************************************************)
C6_ResumedBatchNeverSubmits ==
    (mode = "batch" /\ pc # "idle" /\ FoundMatchesJob /\ Truthy(found.batch_id))
    =>  /\ run_submits = 0
        /\ pc \notin {"b_submit", "b_save_submitted"}
        /\ batch_id = found.batch_id
        /\ first_call # NoCall =>
              first_call = <<"get_batch_status", found.batch_id>>

C6_Witness ==
    /\ mode = "batch"
    /\ pc = "done"
    /\ FoundMatchesJob
    /\ found.batch_stage = "submitted"
    /\ first_call = <<"get_batch_status", found.batch_id>>
    /\ run_submits = 0

(***************************************************************************)
(* C7: over consecutive identical invocations of a batch job, none of      *)
(* which has returned, with the process killed at any point, create_batch  *)
(* is called at most once.                                                 *)
(***************************************************************************)
C7_AtMostOneSubmit == streak_submits <= 1

(***************************************************************************)
(* C10: a stored checkpoint that does not parse or validate never ends the *)
(* call with an exception: load gives None and the run starts clean.       *)
(***************************************************************************)
C10_CorruptCheckpointNeverFatal ==
    error \notin {"checkpoint_decode", "checkpoint_type"}

(***************************************************************************)
(* C11: in sync mode a chunk's transformation is attempted at most 5       *)
(* times; when all attempts fail the call ends with that failure, nothing  *)
(* is written to the output, and the stored checkpoint is the one of the   *)
(* last chunk that succeeded (the one found at the start when none did).   *)
(***************************************************************************)
C11_RetriesExhausted ==
    /\ attempt + 1 <= 5
    /\ (pc = "failed" /\ error = "translate") =>
          /\ mode = "sync"
          /\ output = NoOutput
          /\ IF next_chunk = start_chunk
             THEN Load(disk) = found
             ELSE disk = CompleteFile(
                             SyncCheckpoint(job, next_chunk - 1,
                                 SerializeSegments(translated_segments),
                                 history))

C11_Witness ==
    /\ pc = "failed"
    /\ error = "translate"
    /\ next_chunk = 1
    /\ start_chunk = 0
    /\ Len(chunks) > 1
    /\ IsComplete(disk)
    /\ disk.data.last_completed_chunk = 0

(***************************************************************************)
(* C12: when a sync call is killed (or raises) and the same job is invoked *)
(* again, no chunk whose transformation had completed before is            *)
(* transformed again, except possibly the most recent one.                 *)
(***************************************************************************)
C12_LosesAtMostInFlight ==
    mode = "sync" => calls \cap (prior_calls \ {prior_last}) = {}

C12_Witness ==
    /\ mode = "sync"
    /\ resumed
    /\ prior_calls = {0, 1}
    /\ prior_last = 1
    /\ calls = {1, 2}
    /\ pc = "done"

(***************************************************************************)
(* Helpers of the claims about the assembled output.                       *)
(***************************************************************************)
\* the number of segments in the chunks before the i-th
RECURSIVE SegmentsBefore(_, _)
SegmentsBefore(cs, i) ==
    IF i = 1 THEN 0
    ELSE Len(cs[i - 1].segments) + SegmentsBefore(cs, i - 1)

\* the part of the output that stands for the i-th chunk
ChunkSlice(out, cs, i) ==
    SubSeq(out, SegmentsBefore(cs, i) + 1,
           SegmentsBefore(cs, i) + Len(cs[i].segments))

\* the batch call has assembled and written its output
BatchAssembled ==
    mode = "batch" /\ pc \in {"b_clean", "done"} /\ results # <<>>

\* after the results were fetched the call goes on to write and to clear
BatchGoesOn ==
    (mode = "batch" /\ results # <<>>) =>
        /\ pc \in {"b_save_fetched", "b_write", "b_clean", "done"}
        /\ pc = "done" => disk = NoFile

(***************************************************************************)
(* C13: in the assembled output of a batch call every chunk whose id is    *)
(* missing from the results or whose result carries an error keeps its     *)
(* original segments, every other chunk has its returned text, and the     *)
(* call completes: output written, checkpoint cleared.                     *)
(***************************************************************************)
C13_FailedChunksPassThrough ==
    /\ BatchGoesOn
    /\ BatchAssembled =>
          /\ Len(output) = Len(Flatten(chunks))
          /\ \A i \in 1..Len(chunks) :
                ChunkSlice(output, chunks, i) =
                    IF results[i].kind \in {"text", "empty"}
                    THEN Reconstruct(chunks[i].segments,
                                     IF results[i].kind = "text"
                                     THEN results[i].text ELSE <<>>)
                    ELSE chunks[i].segments

(***************************************************************************)
(* C13 (amended): every chunk whose result has a text that is not empty    *)
(* has that text, also when the result carries an error; every other chunk *)
(* (id missing, error without text, no text or the empty text) keeps its   *)
(* original segments; the call completes.                                  *)
(***************************************************************************)
C13_ChunksWithoutTextPassThrough ==
    /\ BatchGoesOn
    /\ BatchAssembled =>
          /\ Len(output) = Len(Flatten(chunks))
          /\ \A i \in 1..Len(chunks) :
                ChunkSlice(output, chunks, i) =
                    IF results[i].kind \in {"text", "text_error"}
                    THEN Reconstruct(chunks[i].segments, results[i].text)
                    ELSE chunks[i].segments

C13_Witness ==
    /\ mode = "batch"
    /\ pc = "done"
    /\ Len(chunks) = 3
    /\ results[1].kind = "missing"
    /\ results[2].kind = "text"
    /\ results[3].kind = "error"
    /\ disk = NoFile

(***************************************************************************)
(* Helpers of the claims about the reconstruction of a chunk.              *)
(***************************************************************************)
\* how many of the first i segments are translatable
TranslatableUpTo(segs, i) ==
    Cardinality({j \in 1..i : ~segs[j].skip_translation})

\* out gives the n-th translatable segment of segs the n-th part of text,
\* the empty text when there is no n-th part
PartsAssigned(segs, out, text) ==
    LET parts == SplitSep(text) IN
    /\ Len(out) = Len(segs)
    /\ \A i \in 1..Len(segs) :
          ~segs[i].skip_translation =>
              out[i].text = IF TranslatableUpTo(segs, i) <= Len(parts)
                            THEN parts[TranslatableUpTo(segs, i)]
                            ELSE <<>>

\* out has as many segments as segs, the skip segments of segs in place
SkipInPlace(segs, out) ==
    /\ Len(out) = Len(segs)
    /\ \A i \in 1..Len(segs) : segs[i].skip_translation => out[i] = segs[i]

(***************************************************************************)
(* C14: the i-th translatable segment of a chunk gets the i-th part of the *)
(* returned text split on the separator, the empty text when there are     *)
(* fewer parts; a result is always produced (sync and batch).              *)
(***************************************************************************)
C14_PartsByPosition ==
    /\ (pc = "translated" /\ HasTranslatable(CurrentChunk)) =>
          PartsAssigned(CurrentChunk.segments, translated_segments,
                        history[Len(history)])
    /\ pc = "assembled" =>
          /\ Len(output) = Len(Flatten(chunks))
          /\ \A i \in 1..Len(chunks) :
                HasText(results[i]) =>
                    PartsAssigned(chunks[i].segments,
                                  ChunkSlice(output, chunks, i),
                                  results[i].text)

C14_Witness ==
    /\ pc = "translated"
    /\ Len(Translatable(CurrentChunk.segments)) = 2
    /\ Len(SplitSep(history[1])) = 1
    /\ translated_segments[1].text = <<"b">>
    /\ translated_segments[Len(translated_segments)].text = <<>>

(***************************************************************************)
(* C15: whatever text is returned, the result for a chunk has as many      *)
(* segments as the chunk and every skip segment of the chunk at the same   *)
(* position with the same text, metadata, kind and flag (sync and batch).  *)
(***************************************************************************)
C15_SkipSegmentsInPlace ==
    /\ pc = "translated" =>
          SkipInPlace(CurrentChunk.segments, translated_segments)
    /\ pc = "assembled" =>
          /\ Len(output) = Len(Flatten(chunks))
          /\ \A i \in 1..Len(chunks) :
                SkipInPlace(chunks[i].segments, ChunkSlice(output, chunks, i))

C15_Witness ==
    /\ pc = "translated"
    /\ Len(CurrentChunk.segments) = 3
    /\ CurrentChunk.segments[2].skip_translation
    /\ Len(SplitSep(history[1])) = 3
    /\ translated_segments[2] = CodeBlock(<<"a">>)
    /\ translated_segments[3].text # CurrentChunk.segments[3].text

(***************************************************************************)
(* C16: a sync job that was killed or gave up can be invoked again and     *)
(* starts at the chunk after the last one recorded as complete; when       *)
(* every transformation succeeds at some attempt, invoking it again and    *)
(* again leads to a call that returns with the whole output written and    *)
(* the checkpoint cleared.                                                 *)
(***************************************************************************)
C16_ReinvocationFinishes ==
    /\ [](mode = "sync" =>
            start_chunk = IF found = NoCheckpoint THEN 0
                          ELSE found.last_completed_chunk + 1)
    /\ <>(/\ pc = "done"
          /\ disk = NoFile
          /\ Len(output) = Len(Flatten(chunks)))

C16_Witness ==
    /\ pc = "done"
    /\ resumed
    /\ crashes = MaxCrashes
    /\ found.last_completed_chunk = 1
    /\ calls = {2}
    /\ disk = NoFile
    /\ Len(output) = 4

(***************************************************************************)
(* C17: the checkpoint is removed only by a call that has processed all    *)
(* chunks and whose writer has returned; when the writer raises, the       *)
(* checkpoint of the completed work stays in place.                        *)
(***************************************************************************)
C17_ClearOnlyAfterWrite ==
    /\ [][(disk # NoFile /\ disk' = NoFile) =>
            /\ pc \in {"clean", "b_clean"}
            /\ output # NoOutput
            /\ mode = "sync" => next_chunk = Len(chunks)
            /\ mode = "batch" => output = Assemble(chunks, results)]_vars
    /\ []((pc = "failed" /\ error = "write") =>
            /\ output = NoOutput
            /\ IsComplete(disk)
            /\ disk.data.total_chunks = Len(chunks)
            /\ disk.data.engine_type = EngineType
            /\ disk.data.last_completed_chunk = Len(chunks) - 1)

C17_Witness ==
    /\ pc = "failed"
    /\ error = "write"
    /\ mode = "batch"
    /\ IsComplete(disk)
    /\ disk.data.batch_stage = "results_fetched"
    /\ output = NoOutput

(***************************************************************************)
(* CheckpointManager.__init__: where the checkpoint of an output file is.  *)
(* A path is its directory and its file name, the name as the sequence of  *)
(* its parts between the dots ("a.b.txt" is <<"a", "b", "txt">>).  Jobs    *)
(* for several output files run one after the other; each builds its       *)
(* manager, saves or clears its checkpoint, and ends.                      *)
(***************************************************************************)
OutputDirs == {"d1", "d2"}
OutputNames == {<<"a", "txt">>, <<"a", "md">>, <<"b", "txt">>,
                <<"a", "b", "txt">>}
OutputPaths == [parent : OutputDirs, name : OutputNames]

\* Path.stem: the name without its last suffix
Stem(name) == IF Len(name) > 1 THEN SubSeq(name, 1, Len(name) - 1) ELSE name

\* output_path.parent / f"{output_path.stem}.checkpoint.json"
CheckpointPath(path) ==
    [parent |-> path.parent, name |-> Stem(path.name) \o <<"checkpoint", "json">>]

CheckpointPaths == {CheckpointPath(path) : path \in OutputPaths}

\* a checkpoint file, by the output_path its CheckpointData records
CheckpointFor(path) == CompleteFile([output_path |-> path])

InitTargets ==
    /\ pc = "idle"
    /\ segments = <<>>
    /\ counter = "chars"
    /\ context_length = ContextLength
    /\ llm = AnyProvider
    /\ max_tokens = 0
    /\ chunks = <<>>
    /\ output_path = NoPath
    /\ files = [cp \in CheckpointPaths |-> NoFile]
    /\ savers = <<>>
    /\ disk = NoFile
    /\ temp = NoFile
    /\ leaked = 0
    /\ save_pc = "idle"
    /\ save_prev = NoFile
    /\ save_new = NoCheckpoint
    /\ save_at = -1
    /\ crashes = 0
    /\ RunIdle
    /\ BatchIdle

\* checkpoint_mgr = CheckpointManager(output_path)
NewManager ==
    /\ pc = "idle"
    /\ output_path' \in OutputPaths
    /\ pc' = "managing"
    /\ UNCHANGED <<chunkVars, storeVars, crashes, runVars, ghostVars,
                   batchVars, streakVars, files, savers>>

\* checkpoint_mgr.save(CheckpointData(output_path=str(output_path), ...))
SaveTarget ==
    /\ pc = "managing"
    /\ files' = [files EXCEPT ![CheckpointPath(output_path)] =
                                 CheckpointFor(output_path)]
    /\ UNCHANGED <<pc, chunkVars, storeVars, crashes, runVars, ghostVars,
                   batchVars, streakVars, output_path, savers>>

\* checkpoint_mgr.clean()
CleanTarget ==
    /\ pc = "managing"
    /\ files' = [files EXCEPT ![CheckpointPath(output_path)] = NoFile]
    /\ UNCHANGED <<pc, chunkVars, storeVars, crashes, runVars, ghostVars,
                   batchVars, streakVars, output_path, savers>>

\* the call returns or the process ends; the files stay
EndManager ==
    /\ pc = "managing"
    /\ pc' = "idle"
    /\ output_path' = NoPath
    /\ UNCHANGED <<chunkVars, storeVars, crashes, runVars, ghostVars,
                   batchVars, streakVars, files, savers>>

NextTargets ==
    \/ NewManager
    \/ SaveTarget
    \/ CleanTarget
    \/ EndManager

SpecTargets == InitTargets /\ [][NextTargets]_vars

(***************************************************************************)
(* A TranslationEngine whose translate_file is called more than once in    *)
(* one process: the ContextManager built by __init__ lives as long as the  *)
(* engine, and translate_file assigns previous_translations only when it   *)
(* accepts a checkpoint.                                                   *)
(***************************************************************************)
\* translate_file called again on the engine whose call returned or raised
CallAgain ==
    /\ pc \in {"done", "failed"}
    /\ mode = "sync"
    /\ runs < MaxRuns
    /\ runs' = runs + 1
    /\ \E in \in JobInputs, doc \in JobDocs, budget \in JobBudgets :
          StartSyncJob(in, doc, budget)

NextInstance ==
    \/ StartSync
    \/ TranslateRetry
    \/ TranslateGivesUp
    \/ TranslateNext
    \/ SaveProgress
    \/ WriteOutput
    \/ CleanCheckpoint
    \/ CallAgain
    \/ Crash
    \/ Exit

SpecInstance == Init /\ [][NextInstance]_vars

(***************************************************************************)
(* A batch job run to its end: the job is invoked, the process may be      *)
(* killed MaxCrashes times, and after each kill the same job is invoked    *)
(* again.  The call itself takes every step it can take (it is straight    *)
(* line code), and the service reports "completed" at some poll if it is   *)
(* polled again and again.                                                 *)
(***************************************************************************)
ReinvokeBatch ==
    /\ CanStart("batch")
    /\ \E doc \in JobDocs, budget \in JobBudgets :
          /\ streak_key \in {NoKey, <<<<"in1", "fr">>, doc, budget>>}
          /\ StartBatchJob(<<"in1", "fr">>, doc, budget)
    /\ UNCHANGED runs

\* get_batch_status returning the status "completed"
PollCompleted == PollStatus /\ status'.status = "completed"

NextBatchRun ==
    \/ ReinvokeBatch
    \/ SubmitBatch
    \/ SaveSubmitted
    \/ PollStatus
    \/ SavePolling
    \/ FetchResults
    \/ SaveFetched
    \/ WriteBatchOutput
    \/ CleanBatch
    \/ KillSync

\* ReinvokeBatch seen through pc
LeaveIdleBatch == pc = "idle" /\ pc' \in {"b_submit", "b_poll", "done"}

FairBatchRun ==
    /\ WF_pc(LeaveIdleBatch)
    /\ WF_pc(SubmitBatch)
    /\ WF_pc(SaveSubmitted)
    /\ WF_pc(PollStatus)
    /\ SF_pc(PollCompleted)
    /\ WF_pc(SavePolling)
    /\ WF_pc(FetchResults)
    /\ WF_pc(SaveFetched)
    /\ WF_pc(WriteBatchOutput)
    /\ WF_pc(CleanBatch)

SpecBatchRun == Init /\ [][NextBatchRun]_vars /\ FairBatchRun

(***************************************************************************)
(* Helpers of the claims about the stages of a batch call.                 *)
(***************************************************************************)
\* the call has submitted its batch itself
FreshBatch == mode = "batch" /\ run_submits = 1

\* the file holds a checkpoint of this call's batch
HoldsBatch(f) ==
    /\ IsComplete(f)
    /\ f.data.engine_type = "batch"
    /\ f.data.batch_id = batch_id

\* the stage a file records for this call's batch
StageOf(f) ==
    IF f = NoFile THEN "cleared"
    ELSE IF HoldsBatch(f) THEN f.data.batch_stage
    ELSE "none"

StageSteps ==
    {<<"none", "submitted">>, <<"cleared", "submitted">>,
     <<"submitted", "polling">>, <<"polling", "polling">>,
     <<"polling", "results_fetched">>, <<"results_fetched", "cleared">>}

(***************************************************************************)
(* C18: a batch call that submits and is not interrupted writes its        *)
(* checkpoints in the order submitted, polling (once or more),             *)
(* results_fetched, clear; it fetches the results only with the polling    *)
(* checkpoint of the poll that reported completion stored, and assembles   *)
(* and writes only with the results_fetched checkpoint stored.             *)
(***************************************************************************)
C18_StageOrder ==
    /\ [][(FreshBatch /\ mode' = "batch" /\ disk' # disk) =>
            <<StageOf(disk), StageOf(disk')>> \in StageSteps]_vars
    /\ []((FreshBatch /\ pc \in {"b_fetch", "b_save_fetched"}) =>
            /\ StageOf(disk) = "polling"
            /\ status.status = "completed"
            /\ disk.data.last_completed_chunk = status.completed - 1)
    /\ []((FreshBatch /\ pc \in {"b_write", "b_clean"}) =>
            /\ StageOf(disk) = "results_fetched"
            /\ disk.data.last_completed_chunk = Len(chunks) - 1)

C18_Witness ==
    /\ FreshBatch
    /\ pc = "b_clean"
    /\ StageOf(disk) = "results_fetched"
    /\ status.status = "completed"
    /\ Len(chunks) = 3

(***************************************************************************)
(* C19: when create_batch is called the checkpoint file already holds the  *)
(* mapping from correlation id to chunk index and original segments.       *)
(***************************************************************************)
C19_MappingSavedBeforeSubmit ==
    (mode = "batch" /\ pc = "b_save_submitted") =>
        /\ IsComplete(disk)
        /\ disk.data.engine_type = "batch"
        /\ disk.data.input_path = job.input_path
        /\ disk.data.chunk_mapping = ChunkMapping(chunks)

(***************************************************************************)
(* C20: after create_batch the checkpoint of stage submitted, with the     *)
(* returned id, is stored before the first get_batch_status; when that     *)
(* save raises the call ends without any get_batch_status.                 *)
(***************************************************************************)
C20_SubmittedSavedBeforePoll ==
    /\ [][(FreshBatch /\ status = NoStatus /\ status' # NoStatus) =>
            disk = CompleteFile(BatchCheckpoint(job, -1, batch_id,
                                    "submitted", ChunkMapping(chunks)))]_vars
    /\ [][(pc = "b_save_submitted" /\ pc' # "idle"
             /\ disk' # CompleteFile(BatchCheckpoint(job, -1, batch_id,
                                         "submitted", ChunkMapping(chunks))))
            => pc' = "failed"]_vars
    /\ []((FreshBatch /\ pc = "failed" /\ ~HoldsBatch(disk)) =>
            /\ status = NoStatus
            /\ first_call = <<"create_batch", NoBatch>>)

C20_Witness ==
    /\ FreshBatch
    /\ pc = "failed"
    /\ error = "save"
    /\ status = NoStatus
    /\ ~HoldsBatch(disk)

(***************************************************************************)
(* Helpers of the claims about the steps of the chunker.                   *)
(***************************************************************************)
\* chunks, current_segments and current_tokens after the first n segments
ChunkState(n) ==
    ChunkSegmentLoop(SubSeq(segments, 1, n), 1,
        [chunks |-> <<>>, current_segments |-> <<>>, current_tokens |-> 0],
        counter, max_tokens)

\* the sum of the token costs of the segments that are translated
RECURSIVE TokenCostFrom(_, _, _)
TokenCostFrom(segs, i, tc) ==
    IF i > Len(segs) THEN 0
    ELSE (IF segs[i].skip_translation THEN 0
          ELSE CountTokens(tc, segs[i].text)) + TokenCostFrom(segs, i + 1, tc)

\* the document with another text in every skip segment
WithOtherSkipText(segs) ==
    [i \in 1..Len(segs) |->
        IF segs[i].skip_translation
        THEN [segs[i] EXCEPT !.text = <<"a", "a", "a", "a", "a">>]
        ELSE segs[i]]

\* the shape of a chunk list: per chunk, its token_count and its size
Shape(cs) ==
    [i \in 1..Len(cs) |-> <<cs[i].token_count, Len(cs[i].segments)>>]

(***************************************************************************)
(* C28: in the result of chunk_segments every chunk's index is its         *)
(* position (0, 1, 2, ...) and every chunk's total is the number of chunks.*)
(***************************************************************************)
C28_IndexIsPosition ==
    pc = "chunked" =>
        \A i \in 1..Len(chunks) :
            /\ chunks[i].chunk_index = i - 1
            /\ chunks[i].total_chunks = Len(chunks)

C28_Witness ==
    /\ pc = "chunked"
    /\ Len(chunks) >= 3
    /\ \E i \in 1..Len(segments) : Oversized(segments[i], counter, max_tokens)
    /\ chunks[1].total_chunks = Len(chunks)
    /\ chunks[Len(chunks)].chunk_index = Len(chunks) - 1

(***************************************************************************)
(* C29: a skip segment joins the open chunk whatever the counts are: the   *)
(* step that takes it closes no chunk and leaves current_tokens as it is,  *)
(* the chunking does not depend on its text, and a chunk's token_count is  *)
(* the sum of the costs of its segments that are not skip segments.        *)
(***************************************************************************)
C29_SkipJoinsOpenChunk ==
    pc = "chunked" =>
        /\ \A i \in 1..Len(chunks) :
               chunks[i].token_count =
                   TokenCostFrom(chunks[i].segments, 1, counter)
        /\ \A n \in 0..(Len(segments) - 1) :
               segments[n + 1].skip_translation =>
                   LET st == ChunkState(n)
                       st2 == ChunkState(n + 1)
                   IN  /\ st2.chunks = st.chunks
                       /\ st2.current_segments =
                              Append(st.current_segments, segments[n + 1])
                       /\ st2.current_tokens = st.current_tokens
        /\ Shape(ChunkSegments(WithOtherSkipText(segments), counter,
                               max_tokens)) = Shape(chunks)

C29_Witness ==
    /\ pc = "chunked"
    /\ counter = "chars"
    /\ max_tokens = 2
    /\ \E i \in 1..Len(chunks) :
           /\ Len(chunks[i].segments) = 3
           /\ chunks[i].segments[2].skip_translation
           /\ chunks[i].token_count = 2

(***************************************************************************)
(* C30: at a translatable segment whose cost alone exceeds the budget the  *)
(* open chunk, when it holds something, is closed first; the segment is    *)
(* split at sentence boundaries, sentences packed greedily; every piece    *)
(* becomes a chunk of its own that nothing is added to later; a segment    *)
(* of a single sentence gives one piece.                                   *)
(***************************************************************************)
C30_OversizedSplit ==
    pc = "chunked" =>
        \A n \in 0..(Len(segments) - 1) :
            Oversized(segments[n + 1], counter, max_tokens) =>
                LET segment == segments[n + 1]
                    st == ChunkState(n)
                    st2 == ChunkState(n + 1)
                    pieces == SplitLargeSegment(segment, counter, max_tokens)
                    base == IF st.current_segments # <<>>
                            THEN Len(st.chunks) + 1 ELSE Len(st.chunks)
                IN  /\ IsPrefix(st.chunks, st2.chunks)
                    /\ st.current_segments # <<>> =>
                          st2.chunks[base].segments = st.current_segments
                    /\ Len(st2.chunks) = base + Len(pieces)
                    /\ st2.current_segments = <<>>
                    /\ \A k \in 1..Len(pieces) :
                          /\ st2.chunks[base + k].segments = <<pieces[k]>>
                          /\ chunks[base + k].segments = <<pieces[k]>>
                          /\ pieces[k].text # <<>> =>
                                pieces[k].text = Strip(pieces[k].text)
                          /\ CountTokens(counter, pieces[k].text) > max_tokens
                                => IsSingleSentence(pieces[k].text)
                          /\ k < Len(pieces) =>
                                CountTokens(counter,
                                    Strip(pieces[k].text \o <<" ">> \o
                                          SentenceSplit(pieces[k + 1].text)[1]))
                                  > max_tokens
                    /\ IsSingleSentence(segment.text) =>
                          pieces = <<TextSegment(Strip(segment.text),
                                                 segment.metadata,
                                                 segment.segment_type)>>

C30_Witness ==
    /\ pc = "chunked"
    /\ segments = <<CodeBlock(<<"a">>),
                    TextSegment(ThreeSentences, {}, "paragraph")>>
    /\ counter = "chars"
    /\ max_tokens = 3
    /\ Len(chunks) = 3
    /\ chunks[1].segments = <<CodeBlock(<<"a">>)>>
    /\ chunks[2].segments[1].text = <<".", " ", ".">>
    /\ chunks[3].segments[1].text = <<"a">>

(***************************************************************************)
(* C25: the batch requests are one per chunk that has a translatable       *)
(* segment and none for the others; the request of chunk i has the id      *)
(* made from i and the chunk's combined text; the ids differ pairwise; a   *)
(* chunk without a request is in the assembled output as it was, in place. *)
(***************************************************************************)
C25_OneRequestPerTranslatableChunk ==
    LET reqs == BatchRequests(chunks) IN
    /\ Len(reqs) =
          Cardinality({i \in 1..Len(chunks) : HasTranslatable(chunks[i])})
    /\ \A i \in 1..Len(chunks) :
          LET mine == {k \in 1..Len(reqs) :
                          reqs[k].custom_id = CustomId(i - 1)}
          IN  /\ Cardinality(mine) = IF HasTranslatable(chunks[i]) THEN 1 ELSE 0
              /\ \A k \in mine : reqs[k].text = CombinedText(chunks[i])
    /\ \A k1, k2 \in 1..Len(reqs) :
          k1 # k2 => reqs[k1].custom_id # reqs[k2].custom_id
    /\ pc = "assembled" =>
          /\ Len(output) = Len(Flatten(chunks))
          /\ \A i \in 1..Len(chunks) :
                ~HasTranslatable(chunks[i]) =>
                    /\ results[i].kind = "unrequested"
                    /\ ChunkSlice(output, chunks, i) = chunks[i].segments

C25_Witness ==
    /\ pc = "assembled"
    /\ Len(chunks) = 3
    /\ Len(BatchRequests(chunks)) = 2
    /\ ~HasTranslatable(chunks[1])
    /\ BatchRequests(chunks)[1].custom_id = CustomId(1)
    /\ ChunkSlice(output, chunks, 1) = chunks[1].segments
    /\ ChunkSlice(output, chunks, 2) # chunks[2].segments

\* the checkpoint of stage "polling" for the last status query
PollingCheckpoint ==
    CompleteFile(BatchCheckpoint(job, status.completed - 1, batch_id,
                                 "polling", ChunkMapping(chunks)))

(***************************************************************************)
(* C21: the polling loop is left only on a status "completed": the results *)
(* are fetched only when the last status query reported "completed"; after *)
(* any other status the call polls again, and a poll is always possible    *)
(* when the loop is at its head: nothing counts the iterations.            *)
(***************************************************************************)
C21_LoopEndsOnlyOnCompleted ==
    /\ [](pc \in {"b_fetch", "b_save_fetched", "b_write", "b_clean"} =>
            status.status = "completed")
    /\ [][results' # results /\ results' # <<>> =>
            status.status = "completed" /\ status' = status]_vars
    /\ [][(pc = "b_save_polling" /\ status.status # "completed"
             /\ pc' \notin {"idle", "b_save_polling"}) => pc' = "b_poll"]_vars
    /\ [](pc = "b_poll" => ENABLED PollStatus)

C21_Witness ==
    /\ pc = "b_poll"
    /\ status.status = "canceling"
    /\ disk = PollingCheckpoint
    /\ resumed

(***************************************************************************)
(* C26: in every iteration of the polling loop, the one that sees the      *)
(* completion included, the checkpoint of stage polling with the batch_id  *)
(* and the completed count of that status query is stored before the next  *)
(* status query and before the results are fetched.                        *)
(***************************************************************************)
C26_PollingCheckpointEveryIteration ==
    /\ []((pc = "b_poll" /\ status # NoStatus) => disk = PollingCheckpoint)
    /\ [](pc = "b_fetch" => disk = PollingCheckpoint)
    /\ [][(pc = "b_save_polling" /\ pc' \in {"b_poll", "b_fetch"}) =>
            /\ disk' = PollingCheckpoint
            /\ status' = status]_vars

C26_Witness ==
    /\ pc = "b_fetch"
    /\ status.completed = 2
    /\ disk = PollingCheckpoint
    /\ disk.data.last_completed_chunk = 1
    /\ found # NoCheckpoint
    /\ found.last_completed_chunk = 0

(***************************************************************************)
(* C27: when the service reports completion at some poll and the process   *)
(* is not killed any more, a batch call, fresh or resumed, fetches the     *)
(* results, writes the output assembled in chunk order and clears the      *)
(* checkpoint; a call with requests never returns while no status query    *)
(* has reported "completed".                                               *)
(***************************************************************************)
C27_BatchRunFinishes ==
    /\ <>(/\ pc = "done"
          /\ mode = "batch"
          /\ BatchRequests(chunks) # <<>> =>
                /\ results \in ResultSets(chunks)
                /\ output = Assemble(chunks, results)
                /\ Len(output) = Len(Flatten(chunks))
                /\ disk = NoFile)
    /\ []((pc \in {"done", "failed"} /\ BatchRequests(chunks) # <<>>) =>
            /\ pc = "done"
            /\ status.status = "completed"
            /\ output = Assemble(chunks, results)
            /\ disk = NoFile)
    /\ [][(pc = "b_save_polling" /\ status.status # "completed") =>
            pc' \in {"b_save_polling", "b_poll", "idle"}]_vars

C27_Witness ==
    /\ pc = "done"
    /\ mode = "batch"
    /\ resumed
    /\ crashes = MaxCrashes
    /\ status.status = "completed"
    /\ Len(chunks) = 3
    /\ output = Assemble(chunks, results)
    /\ output # segments
    /\ disk = NoFile

(***************************************************************************)
(* Helpers of the claim about the order of the sync transformations.       *)
(***************************************************************************)
\* the texts llm.translate returned in this call, the last one left out
EarlierTexts ==
    [k \in 1..(Len(returned) - 1) |-> returned[k].text]

\* previous_translations when the call started
HistoryAtStart == IF resumed THEN found.context_history ELSE <<>>

\* the checkpoint written after chunk i by this call
CheckpointOfChunk(i) ==
    CompleteFile(SyncCheckpoint(job, i, SerializeSegments(translated_segments),
                                history))

(***************************************************************************)
(* C23: a sync call transforms the chunks in ascending index order, one at *)
(* a time: llm.translate is called for the chunk the loop is at, after all *)
(* chunks before it, and only with the checkpoint of the chunk before it   *)
(* stored; the context it is given is made of the texts returned for the   *)
(* last two chunks transformed before it (none for chunk 0).               *)
(***************************************************************************)
C23_InOrderWithContext ==
    /\ [][(calls' # calls /\ calls' # {}) =>
            /\ calls' = calls \cup {next_chunk}
            /\ \A c \in calls : c < next_chunk
            /\ next_chunk > start_chunk => disk = CheckpointOfChunk(next_chunk - 1)
            /\ pc' = "save"]_vars
    /\ [][(mode = "sync" /\ mode' = "sync" /\ next_chunk' # next_chunk
             /\ pc # "idle") =>
            /\ next_chunk' = next_chunk + 1
            /\ disk' = CheckpointOfChunk(next_chunk)]_vars
    /\ []((mode = "sync" /\ pc = "save" /\ HasTranslatable(CurrentChunk)) =>
            LET prev == HistoryAtStart \o EarlierTexts IN
            /\ returned[Len(returned)].index = next_chunk
            /\ history = Append(prev, returned[Len(returned)].text)
            /\ \A k \in 1..(Len(returned) - 1) :
                  returned[k].index < next_chunk
            /\ context =
                  IF next_chunk = 0 \/ prev = <<>> THEN NoContext
                  ELSE IF Len(prev) = 1 THEN SomeContext(prev[1])
                  ELSE SomeContext(prev[Len(prev) - 1] \o <<" ">>
                                   \o prev[Len(prev)]))

C23_Witness ==
    /\ mode = "sync"
    /\ pc = "save"
    /\ next_chunk = 2
    /\ ~resumed
    /\ Len(returned) = 3
    /\ returned[1].text # returned[2].text
    /\ context = SomeContext(returned[1].text \o <<" ">> \o returned[2].text)
    /\ IsComplete(disk)
    /\ disk.data.last_completed_chunk = 1

(***************************************************************************)
(* C24: a sync call that does not resume (no checkpoint, or one that does  *)
(* not match) starts at chunk 0 with no completed segments and an empty    *)
(* context history, also when it is the second call on the same engine.    *)
(***************************************************************************)
C24_FreshStartIsEmpty ==
    (mode = "sync" /\ pc = "translate" /\ ~resumed
        /\ next_chunk = start_chunk /\ attempt = 0 /\ returned = <<>>) =>
        /\ start_chunk = 0
        /\ translated_segments = <<>>
        /\ history = <<>>

(***************************************************************************)
(* C22: the checkpoint location is one per output file: two output files   *)
(* never have the same checkpoint path, so the file a manager loads,       *)
(* replaces or removes is never the checkpoint of a job for another        *)
(* output file.                                                            *)
(***************************************************************************)
C22_OneCheckpointPerTarget ==
    pc = "managing" =>
        /\ \A other \in OutputPaths :
               other # output_path =>
                   CheckpointPath(other) # CheckpointPath(output_path)
        /\ IsComplete(files[CheckpointPath(output_path)]) =>
               files[CheckpointPath(output_path)].data.output_path = output_path

(***************************************************************************)
(* ContextManager.get_context alone: a manager with any window of          *)
(* 1..MaxWindow characters (the engine builds it with the default, 200)    *)
(* and any history of up to three recorded texts of up to MaxEntry         *)
(* characters, asked for the context of chunk 0 or of a later chunk.       *)
(***************************************************************************)
MaxEntry == 2
MaxWindow == 3

HistoryEntries == UNION {TextsOfLen(n) : n \in 0..MaxEntry}
Histories == UNION {[1..n -> HistoryEntries] : n \in 0..3}

InitContext ==
    /\ pc = "context"
    /\ segments = <<>>
    /\ counter = "chars"
    /\ max_tokens = 0
    /\ chunks = <<>>
    /\ context_length \in 1..MaxWindow
    /\ llm = AnyProvider
    /\ StoreIdle
    /\ crashes = 0
    /\ mode = None
    /\ job = NoJob
    /\ start_chunk = 0
    /\ next_chunk \in 0..1
    /\ translated_segments = <<>>
    /\ resumed = FALSE
    /\ history \in Histories
    /\ attempt = 0
    /\ output = NoOutput
    /\ error = None
    /\ runs = 0
    /\ found = NoCheckpoint
    /\ calls = {}
    /\ identity = TRUE
    /\ context = NoContext
    /\ returned = <<>>
    /\ asked = {}
    /\ BatchIdle

\* context = self.context_manager.get_context(chunk.chunk_index)
AskContext ==
    /\ pc = "context"
    /\ context' = GetContext(history, next_chunk, context_length)
    /\ pc' = "context_given"
    /\ UNCHANGED <<chunkVars, fileVars, storeVars, crashes, runVars, found,
                   calls, identity, returned, asked, batchVars, streakVars>>

NextContext == AskContext

SpecContext == InitContext /\ [][NextContext]_vars

\* the last two recorded texts joined by a space (the last one alone when
\* there is one)
RecentText ==
    IF Len(history) = 1 THEN history[1]
    ELSE history[Len(history) - 1] \o <<" ">> \o history[Len(history)]

\* s is the end of t
IsSuffix(s, t) ==
    Len(s) <= Len(t) /\ s = SubSeq(t, Len(t) - Len(s) + 1, Len(t))

(***************************************************************************)
(* C31: get_context gives None for chunk 0 and for an empty history;       *)
(* otherwise it gives an end of the last two recorded texts joined by a    *)
(* space (earlier texts play no part) that is never longer than the        *)
(* window: the whole joined text when it fits, else its last window        *)
(* characters, cut after the first ". " in them when there is one.         *)
(***************************************************************************)
C31_ContextWithinWindow ==
    pc = "context_given" =>
        IF next_chunk = 0 \/ history = <<>> THEN context = NoContext
        ELSE /\ context.some
             /\ Len(context.text) <= context_length
             /\ IsSuffix(context.text, RecentText)
             /\ Len(RecentText) <= context_length => context.text = RecentText
             /\ context = GetContext(LastTwo(history), next_chunk,
                                     context_length)

C31_Witness ==
    /\ pc = "context_given"
    /\ next_chunk = 1
    /\ context_length = 3
    /\ Len(history) = 3
    /\ history[1] # <<>>
    /\ RecentText = <<"a", ".", " ", "a">>
    /\ context = SomeContext(<<"a">>)

\* the chunk the loop is at has skip_translation segments only
SkipOnlyChunk ==
    /\ mode = "sync"
    /\ next_chunk < Len(chunks)
    /\ Translatable(CurrentChunk.segments) = <<>>

(***************************************************************************)
(* C32: in a sync call a chunk without a translatable segment adds its     *)
(* segments as they are to the output, llm.translate is not called for it  *)
(* and the context history stays as it is; the checkpoint saved after it   *)
(* records it as the last completed chunk, like for any other chunk.       *)
(***************************************************************************)
C32_SkipOnlyChunkPassesThrough ==
    /\ [][(pc = "translate" /\ pc' = "save" /\ SkipOnlyChunk) =>
            /\ translated_segments' = translated_segments \o CurrentChunk.segments
            /\ calls' = calls
            /\ returned' = returned
            /\ history' = history
            /\ disk' = disk]_vars
    /\ [][(pc = "save" /\ pc' = "translate" /\ SkipOnlyChunk) =>
            /\ disk' = CompleteFile(
                           SyncCheckpoint(job, CurrentChunk.chunk_index,
                                          SerializeSegments(translated_segments),
                                          history))
            /\ next_chunk' = next_chunk + 1]_vars
    /\ [](mode = "sync" =>
            \A i \in calls : Translatable(chunks[i + 1].segments) # <<>>)

C32_Witness ==
    /\ mode = "sync"
    /\ pc = "translate"
    /\ segments = DocC
    /\ next_chunk = 1
    /\ calls = {}
    /\ history = <<>>
    /\ translated_segments = DocC
    /\ IsComplete(disk)
    /\ disk.data.last_completed_chunk = 0
    /\ disk.data.translated_segments = SerializeSegments(DocC)

(***************************************************************************)
(* Two orchestrators (two processes) whose CheckpointManagers have the     *)
(* same checkpoint_path, saving with their steps interleaved, and a third  *)
(* process loading.  mkstemp gives every save a temporary file of its own; *)
(* os.replace puts it at the checkpoint path in one step.  The first       *)
(* orchestrator is a sync call, the second a batch call.                   *)
(***************************************************************************)
\* number of saves each orchestrator makes
MaxSaves == 2

Savers == {1, 2}

SaverSamples(i) ==
    {data \in SaveSamples :
        data.engine_type = (IF i = 1 THEN "real-time" ELSE "batch")}

SaverIdle ==
    [save_pc |-> "idle", temp |-> NoFile, data |-> NoCheckpoint, saves |-> 0,
     replaced |-> 0]

\* the number of os.replace calls so far
Replaces ==
    LET n(i) == savers[i].replaced
    IN  IF n(1) > n(2) THEN n(1) ELSE n(2)

InitSavers ==
    /\ pc = "store"
    /\ segments = <<>>
    /\ counter = "chars"
    /\ context_length = ContextLength
    /\ llm = AnyProvider
    /\ max_tokens = 0
    /\ chunks = <<>>
    /\ output_path = NoPath
    /\ files = <<>>
    /\ savers = [i \in Savers |-> SaverIdle]
    /\ disk = NoFile
    /\ temp = NoFile
    /\ leaked = 0
    /\ save_pc = "idle"
    /\ save_prev = NoFile
    /\ save_new = NoCheckpoint
    /\ save_at = -1
    /\ crashes = 0
    /\ RunIdle
    /\ BatchIdle

\* SaverWrite writing to the checkpoint path itself instead of a temporary
\* file
SaverWriteInPlace ==
    /\ \E i \in Savers :
          /\ savers[i].save_pc = "writing"
          /\ savers[i].temp.written < SaveParts
          /\ savers' = [savers EXCEPT ![i].temp.written = @ + 1]
          /\ disk' = savers'[i].temp
    /\ UNCHANGED <<pc, chunkVars, output_path, files, temp, leaked, save_pc,
                   save_prev, save_new, save_at, crashes, runVars, ghostVars,
                   batchVars, streakVars>>

\* asdict(data); tempfile.mkstemp(dir=checkpoint_path.parent)
SaverBegin ==
    /\ \E i \in Savers : \E data \in SaverSamples(i) :
          /\ savers[i].save_pc \in {"idle", "returned"}
          /\ savers[i].saves < MaxSaves
          /\ savers' = [savers EXCEPT ![i] =
                           [save_pc |-> "writing", temp |-> JsonFile(data, 0),
                            data |-> data, saves |-> @.saves + 1,
                            replaced |-> @.replaced]]
    /\ UNCHANGED <<pc, chunkVars, output_path, files, storeVars, crashes,
                   runVars, ghostVars, batchVars, streakVars>>

\* json.dump(checkpoint_dict, f): one more part reaches the saver's own
\* temporary file
SaverWrite ==
    /\ \E i \in Savers :
          /\ savers[i].save_pc = "writing"
          /\ savers[i].temp.written < SaveParts
          /\ savers' = [savers EXCEPT ![i].temp.written = @ + 1]
    /\ UNCHANGED <<pc, chunkVars, output_path, files, storeVars, crashes,
                   runVars, ghostVars, batchVars, streakVars>>

\* os.replace(temp_path, self.checkpoint_path)
SaverReplace ==
    /\ \E i \in Savers :
          /\ savers[i].save_pc = "writing"
          /\ savers[i].temp.written = SaveParts
          /\ disk' = savers[i].temp
          /\ savers' = [savers EXCEPT ![i].save_pc = "returned",
                                      ![i].temp = NoFile,
                                      ![i].replaced = Replaces + 1]
    /\ UNCHANGED <<pc, chunkVars, output_path, files, temp, leaked, save_pc,
                   save_prev, save_new, save_at, crashes, runVars, ghostVars,
                   batchVars, streakVars>>

\* load(): if not self.exists(): return None
LoadExists ==
    /\ pc = "store"
    /\ IF disk = NoFile
       THEN found' = NoCheckpoint /\ pc' = "store"
       ELSE found' = found /\ pc' = "open"
    /\ UNCHANGED <<chunkVars, fileVars, storeVars, crashes, runVars, calls,
                   identity, context, returned, asked, batchVars, streakVars>>

\* load(): open, json.load, CheckpointData(**data)
LoadRead ==
    /\ pc = "open"
    /\ found' = Load(disk)
    /\ pc' = "store"
    /\ UNCHANGED <<chunkVars, fileVars, storeVars, crashes, runVars, calls,
                   identity, context, returned, asked, batchVars, streakVars>>

NextSavers ==
    \/ SaverBegin
    \/ SaverWrite
    \/ SaverReplace
    \/ LoadExists
    \/ LoadRead

SpecSavers == InitSavers /\ [][NextSavers]_vars

\* no save is in progress
SaversDone == \A i \in Savers : savers[i].save_pc \in {"idle", "returned"}

\* the checkpoints given to the saves that have replaced the file or are on
\* their way to
SaverData == {savers[i].data : i \in Savers} \ {NoCheckpoint}

(***************************************************************************)
(* C33: with two orchestrators saving to one checkpoint path, their steps  *)
(* interleaved in any way and no lock, the file at the path is always      *)
(* absent or the complete checkpoint of one save; a load gives None only   *)
(* when it finds no file, else one checkpoint that one of the two saved;   *)
(* and when no save is in progress the file is the one of the save whose   *)
(* os.replace came last.                                                   *)
(***************************************************************************)
C33_InterleavedSavesAtomic ==
    /\ [](savers # <<>> =>
            /\ disk = NoFile \/ (IsComplete(disk) /\ disk.data \in SaveSamples)
            /\ found = NoCheckpoint \/ found \in SaveSamples
            /\ (disk = NoFile) <=> (Replaces = 0)
            /\ (SaversDone /\ Replaces > 0) =>
                  \E i \in Savers :
                      /\ savers[i].replaced = Replaces
                      /\ disk = CompleteFile(savers[i].data))
    /\ [][(savers # <<>> /\ pc = "open" /\ pc' = "store") =>
            /\ found' # NoCheckpoint
            /\ \E i \in Savers : found'.engine_type =
                                     (IF i = 1 THEN "real-time" ELSE "batch")]_vars

\* both have saved, the second one's replace came first, and a load while
\* the first was still writing saw the second one's checkpoint
C33_Witness ==
    /\ savers # <<>>
    /\ SaversDone
    /\ savers[1].replaced = 2
    /\ savers[2].replaced = 1
    /\ savers[1].saves = 1
    /\ savers[2].saves = 1
    /\ found = savers[2].data
    /\ disk = CompleteFile(savers[1].data)

(***************************************************************************)
(* C34: when a sync call accepts a checkpoint, the segments it restores    *)
(* are the outputs of the chunks 0..last_completed_chunk of the chunking   *)
(* it has just made (as many segments as those chunks hold), and the       *)
(* output it writes has as many segments as its chunks hold, whatever      *)
(* document and chunk size the call that saved the checkpoint had.         *)
(***************************************************************************)
C34_RestoredSegmentsFitChunking ==
    /\ (mode = "sync" /\ resumed /\ pc \notin {"idle", "failed"}) =>
           /\ start_chunk <= Len(chunks)
           /\ Len(found.translated_segments) =
                  SegmentsBefore(chunks, start_chunk + 1)
    /\ (mode = "sync" /\ pc \in {"clean", "done"}) =>
           Len(output) = Len(Flatten(chunks))

\* the place of a stage in the order submitted < polling < results_fetched
StageRank(stage) ==
    CASE stage = "submitted" -> 1
      [] stage = "polling" -> 2
      [] stage = "results_fetched" -> 3

\* the file holds a checkpoint of some batch
IsBatchFile(f) == IsComplete(f) /\ f.data.engine_type = "batch"

(***************************************************************************)
(* C35: the batch_stage in the stored checkpoint of one batch (one         *)
(* batch_id) never goes back in the order submitted, polling,              *)
(* results_fetched, whatever the steps in between: kills and               *)
(* re-invocations that resume the batch included.                          *)
(***************************************************************************)
C35_StageNeverGoesBack ==
    [][(IsBatchFile(disk) /\ IsBatchFile(disk')
          /\ disk'.data.batch_id = disk.data.batch_id) =>
          StageRank(disk'.data.batch_stage) >=
              StageRank(disk.data.batch_stage)]_vars

(***************************************************************************)
(* C36: when an orchestrator call has returned (a sync call, a batch call, *)
(* a batch call that returned early because no chunk has a translatable    *)
(* segment) there is no checkpoint file, also when there was one, of       *)
(* whatever job, when the call began.                                      *)
(***************************************************************************)
C36_NoCheckpointAfterReturn ==
    pc = "done" => disk = NoFile

(***************************************************************************)
(* One orchestrator call that finds a checkpoint left by an earlier,       *)
(* killed call for the same output path: of a sync call or of a batch      *)
(* call (with the id of its batch).  The input may be any of the           *)
(* documents or the empty document (an empty file: no segment, no chunk);  *)
(* save and parser.write may raise.                                        *)
(***************************************************************************)
StaleFiles ==
    {CompleteFile(SyncCheckpoint(Job("in1", "fr", 1, 2), 0,
                      SerializeSegments(<<TextSegment(<<"b">>, {}, "paragraph")>>),
                      <<<<"b">>>>)),
     CompleteFile(BatchCheckpoint(Job("in1", "fr", 1, 2), -1, 1, "polling",
                                  NoMapping))}

StaleDocs == JobDocs \cup {<<>>}

InitStale ==
    /\ pc = "idle"
    /\ segments = <<>>
    /\ counter = "chars"
    /\ context_length = ContextLength
    /\ llm = AnyProvider
    /\ max_tokens = 0
    /\ chunks = <<>>
    /\ output_path = NoPath
    /\ files = <<>>
    /\ savers = <<>>
    /\ disk \in StaleFiles
    /\ temp = NoFile
    /\ leaked = 0
    /\ save_pc = "idle"
    /\ save_prev = NoFile
    /\ save_new = NoCheckpoint
    /\ save_at = -1
    /\ crashes = 0
    /\ RunIdle
    /\ BatchLocalIdle
    /\ submits = 1
    /\ streak_key = NoKey
    /\ streak_submits = 0
    /\ prior_calls = {}
    /\ prior_last = -1

\* translate_file called for any job and any document
StartSyncStale ==
    /\ CanStart("sync")
    /\ runs' = runs + 1
    /\ \E in \in JobInputs, doc \in StaleDocs, budget \in JobBudgets :
          StartSyncJob(in, doc, budget)

\* translate_file_batch called for any job and any document
StartBatchStale ==
    /\ CanStart("batch")
    /\ runs' = runs + 1
    /\ \E in \in JobInputs, doc \in StaleDocs, budget \in JobBudgets :
          StartBatchJob(in, doc, budget)

NextStale ==
    \/ StartSyncStale
    \/ TranslateRetry
    \/ TranslateGivesUp
    \/ TranslateNext
    \/ SaveProgress
    \/ WriteOutput
    \/ CleanCheckpoint
    \/ StartBatchStale
    \/ SubmitBatch
    \/ SaveSubmitted
    \/ PollStatus
    \/ SavePolling
    \/ FetchResults
    \/ SaveFetched
    \/ WriteBatchOutput
    \/ CleanBatch
    \/ SaveRaises
    \/ WriteRaises

SpecStale == InitStale /\ [][NextStale]_vars

\* where a call is when it is inside checkpoint_mgr.save
SavingPcs == {"save", "b_save_submitted", "b_save_polling", "b_save_fetched"}

(***************************************************************************)
(* C37 as stated: a call that did not resume changes the checkpoint file   *)
(* first by a save of its own (sync: after a chunk, batch: after           *)
(* create_batch); until then the file it found is as it was.               *)
(***************************************************************************)
C37_StaleUntilFirstSave ==
    [][(~resumed' /\ disk' # disk) =>
          \/ pc \in SavingPcs
          \/ pc = "clean" /\ next_chunk > 0
          \/ pc = "b_clean"]_vars

(***************************************************************************)
(* C37: the start of a call (parse, chunk, load, accept or reject) leaves  *)
(* the checkpoint file as it is.  The file changes only by a save of the   *)
(* call that returns (sync: with the chunk the loop is at completed,       *)
(* batch: with the batch submitted) and by the clean after the output is   *)
(* written, which for a sync call without chunks comes with no save        *)
(* before it; a call that raises before its first save, or in it, leaves   *)
(* the file it found.                                                      *)
(***************************************************************************)
C37_StaleUntilSaveOrClean ==
    /\ [][disk' # disk =>
            /\ pc \in SavingPcs \cup {"clean", "b_clean"}
            /\ pc' # "failed"]_vars
    /\ [](pc = "b_save_submitted" => (run_submits = 1 /\ Truthy(batch_id)))
    /\ []((pc = "save" /\ ~resumed) =>
            Len(translated_segments) = SegmentsBefore(chunks, next_chunk + 2))
    /\ []((pc = "clean" /\ ~resumed /\ next_chunk = 0) => chunks = <<>>)

\* a sync call has rejected the checkpoint of a batch call, with its batch
\* id, and has raised at its first chunk: the file is as it was
C37_Witness ==
    /\ mode = "sync"
    /\ pc = "failed"
    /\ error = "translate"
    /\ ~resumed
    /\ next_chunk = 0
    /\ found.engine_type = "batch"
    /\ Truthy(found.batch_id)
    /\ disk \in StaleFiles
    /\ disk = CompleteFile(found)

(***************************************************************************)
(* C38: every checkpoint a sync call saves has engine_type "real-time",    *)
(* the chunk count of the call and 0 <= last_completed_chunk <             *)
(* total_chunks; from one save of a call to its next, last_completed_chunk *)
(* goes up by exactly 1 and translated_segments and context_history are    *)
(* the earlier lists with elements appended.                               *)
(***************************************************************************)
C38_SyncCheckpointsGrow ==
    [][(mode = "sync" /\ pc = "save" /\ pc' = "translate") =>
          /\ IsComplete(disk')
          /\ disk'.data.engine_type = "real-time"
          /\ disk'.data.total_chunks = Len(chunks)
          /\ 0 <= disk'.data.last_completed_chunk
          /\ disk'.data.last_completed_chunk < disk'.data.total_chunks
          /\ next_chunk > start_chunk =>
                /\ IsComplete(disk)
                /\ disk'.data.last_completed_chunk =
                      disk.data.last_completed_chunk + 1
                /\ IsPrefix(disk.data.translated_segments,
                            disk'.data.translated_segments)
                /\ Len(disk'.data.translated_segments) >
                      Len(disk.data.translated_segments)
                /\ IsPrefix(disk.data.context_history,
                            disk'.data.context_history)]_vars

\* the third save of a call that began at chunk 0
C38_Witness ==
    /\ mode = "sync"
    /\ pc = "translate"
    /\ start_chunk = 0
    /\ next_chunk = 3
    /\ IsComplete(disk)
    /\ disk.data.last_completed_chunk = 2
    /\ Len(disk.data.translated_segments) = 4
    /\ Len(disk.data.context_history) = 3

(***************************************************************************)
(* C40: every checkpoint a batch call saves has engine_type "batch", a     *)
(* batch_id that is not absent and the chunk mapping of the call; all the  *)
(* checkpoints of one call carry one batch_id, the one its single          *)
(* create_batch returned or the one restored from the accepted checkpoint, *)
(* and every get_batch_status and get_batch_results of the call is made    *)
(* with that id.                                                           *)
(***************************************************************************)
BatchSavePcs == {"b_save_submitted", "b_save_polling", "b_save_fetched"}
AfterSubmitPcs ==
    BatchSavePcs \cup {"b_poll", "b_fetch", "b_write", "b_clean"}

C40_OneBatchIdPerRun ==
    /\ [][(pc \in BatchSavePcs /\ pc' \in AfterSubmitPcs) =>
            /\ IsBatchFile(disk')
            /\ Truthy(disk'.data.batch_id)
            /\ disk'.data.batch_id = batch_id
            /\ disk'.data.chunk_mapping = ChunkMapping(chunks)]_vars
    /\ [][(pc \in AfterSubmitPcs /\ pc' \in AfterSubmitPcs) =>
            batch_id' = batch_id]_vars
    /\ [][(pc = "b_submit" /\ pc' = "b_save_submitted") =>
            /\ ~resumed
            /\ run_submits' = 1
            /\ batch_id' = submits']_vars
    /\ [](pc \in AfterSubmitPcs =>
            /\ mode = "batch"
            /\ Truthy(batch_id)
            /\ asked \subseteq {batch_id}
            /\ IF resumed
               THEN run_submits = 0 /\ batch_id = found.batch_id
               ELSE run_submits = 1)

\* a resumed call that polled, fetched and saved with the restored id
C40_Witness ==
    /\ mode = "batch"
    /\ resumed
    /\ pc = "b_write"
    /\ asked = {batch_id}
    /\ IsBatchFile(disk)
    /\ disk.data.batch_id = found.batch_id
    /\ disk.data.batch_stage = "results_fetched"

(***************************************************************************)
(* One sync job with a provider that is a function: llm.translate returns  *)
(* the same text whenever it is given the same text and the same context.  *)
(* The job is invoked again after every kill and every failure, as in      *)
(* SpecResume.                                                             *)
(***************************************************************************)
Providers ==
    {"echo", "constant", "echo_first", "echo_later", "by_context", "by_text"}

\* what the provider p returns for a text and a context
Answer(p, text, ctx) ==
    CASE p = "echo" -> text
      [] p = "constant" -> <<"b">>
      [] p = "echo_first" -> IF ctx.some THEN <<"b">> ELSE text
      [] p = "echo_later" -> IF ctx.some THEN text ELSE <<"b">>
      [] p = "by_context" ->
            IF ctx.some /\ ctx.text[Len(ctx.text)] = "b"
            THEN text ELSE <<"b">>
      [] p = "by_text" -> IF Len(text) = 1 THEN <<"b">> ELSE text

InitDet ==
    /\ pc = "idle"
    /\ segments = <<>>
    /\ counter = "chars"
    /\ context_length = ContextLength
    /\ llm \in Providers
    /\ max_tokens = 0
    /\ chunks = <<>>
    /\ StoreIdle
    /\ crashes = 0
    /\ RunIdle
    /\ BatchIdle

\* TranslateNext with the provider llm
TranslateDet ==
    /\ TranslateNext
    /\ Len(returned') > Len(returned) =>
          returned'[Len(returned')].text =
             Answer(llm, CombinedText(CurrentChunk), context')

NextDet ==
    \/ Reinvoke
    \/ TranslateRetry
    \/ TranslateGivesUp
    \/ TranslateDet
    \/ SaveProgress
    \/ WriteOutput
    \/ CleanCheckpoint
    \/ KillSync
    \/ ExitFailed

SpecDet == InitDet /\ [][NextDet]_vars

\* The call that is never interrupted, chunk by chunk: the context given
\* for chunk i, the text returned for it, the history before chunk i and
\* the segments of the chunks before chunk i.
RECURSIVE RefHistory(_, _)
RefContext(cs, i) == GetContext(RefHistory(cs, i), i, context_length)
RefAnswer(cs, i) == Answer(llm, CombinedText(cs[i + 1]), RefContext(cs, i))
RefHistory(cs, i) ==
    IF i = 0 THEN <<>>
    ELSE IF HasTranslatable(cs[i])
         THEN Append(RefHistory(cs, i - 1), RefAnswer(cs, i - 1))
         ELSE RefHistory(cs, i - 1)

RECURSIVE RefSegments(_, _)
RefSegments(cs, i) ==
    IF i = 0 THEN <<>>
    ELSE RefSegments(cs, i - 1) \o
            (IF HasTranslatable(cs[i])
             THEN TranslateChunk(cs[i], RefAnswer(cs, i - 1))
             ELSE cs[i].segments)

(***************************************************************************)
(* C39: with a provider that is a function of text and context, every      *)
(* call of a sync run, resumed or not, is made for the text and with the   *)
(* context the uninterrupted run gives for that chunk and gets the same    *)
(* answer; a resumed run calls only for chunks after the last completed    *)
(* one; and the output written is the output of the uninterrupted run.     *)
(***************************************************************************)
C39_ResumedRunSameAsUninterrupted ==
    /\ [][Len(returned') > Len(returned) =>
            /\ context' = RefContext(chunks, next_chunk)
            /\ returned'[Len(returned')] =
                  [index |-> next_chunk,
                   text |-> RefAnswer(chunks, next_chunk)]
            /\ resumed => next_chunk > found.last_completed_chunk]_vars
    /\ [](pc = "translate" =>
            /\ history = RefHistory(chunks, next_chunk)
            /\ translated_segments = RefSegments(chunks, next_chunk))
    /\ [](pc \in {"clean", "done"} =>
            output = RefSegments(chunks, Len(chunks)))

\* a run killed twice, resumed after chunk 1, whose last call had a context
C39_Witness ==
    /\ pc = "done"
    /\ resumed
    /\ crashes = MaxCrashes
    /\ llm = "by_context"
    /\ found.last_completed_chunk = 1
    /\ Len(chunks) = 3
    /\ calls = {2}
    /\ context.some
    /\ output = RefSegments(chunks, 3)

====
